---------------------------- MODULE Spec2Model ----------------------------
(***************************************************************************)
(* ProtocolProxy (v02): the communication orchestrator App (app.py), the   *)
(* Parameter synchronisation state machine Par (device.py) and the SONY    *)
(* adapter (devices/sony.py), and the packet transceiver                   *)
(* PelengTransceiver (serial_transceiver.py) with its checksum.            *)
(*                                                                         *)
(* Three threads are modelled: the command thread ("cmd": the CLI / UI     *)
(* thread that calls the API methods), the Continuous-mode worker ("comm": *)
(* App.commLoop) and the Smart-mode worker ("ncs": App.ncsLoop).           *)
(*                                                                         *)
(* Specifications:                                                         *)
(*   Spec      - a session in Continuous mode (command thread + commLoop)  *)
(*   SpecSmart - a session that uses both modes (adds ncsLoop)             *)
(*   SpecPar   - one Parameter under arbitrary set() and ack() calls       *)
(*   SpecWire  - one PelengTransceiver looped back on itself               *)
(*   SpecSend  - sendPacket on payloads around its length limits, read back *)
(*   SpecSum   - the packet checksum applied to byte strings               *)
(*   SpecAck   - ackTransaction repeating the Smart-mode transaction       *)
(*   SpecNative- SONY.receiveNative on the bytes of the native port        *)
(*   SpecSony  - SONY.wrap and SONY.unwrap on one adapter                  *)
(*   SpecFcb   - the message counter of fcb_protocol.communicate           *)
(*   SpecLive  - Spec with the threads scheduled fairly                    *)
(*   SpecStop  - a fairly scheduled commLoop reading a busy native port    *)
(*   SpecScan  - receivePacket on long runs of noise and bad headers       *)
(*   SpecNotify- the Notifier under addEvents, addHandler and notify       *)
(*   SpecShare - ncsLoop and ackTransaction sharing the device port        *)
(*   SpecDelay - the waits of commLoop after device read timeouts          *)
(***************************************************************************)
EXTENDS Integers, Sequences, FiniteSets, TLC

\* ------------------------------------------------------------ bounds ----
\* Adapter instances App.setProtocol may create in one run.
MaxDevices == 2
\* Cap of the per-endpoint counters of consecutive read timeouts.
MaxTimeouts == 1
\* API calls the command thread makes in one run.
MaxCalls == 4
\* Largest value of the int-typed Parameter of the Parameter specification.
MaxParValue == 3
\* Longest payload of the wire specification.
MaxPayloadLen == 3
\* Longest burst of line noise.
MaxGarbageLen == 2
\* sendPacket calls in one run of the wire specification.
MaxPackets == 2
\* How far below and above each length limit the send specification goes.
MaxLenMargin == 24
\* Longest byte string of the checksum specification.
MaxSumLen == 4
\* Leading terminators, and the free bytes before and after the run of
\* data bytes, of a native stream; how far below the size limit its run of
\* data bytes starts.
MaxLeadFF == 2
MaxHeadLen == 2
MaxTailLen == 2
MaxFillMargin == 3
\* Native messages one run of the adapter specification wraps.
MaxWraps == 3
\* How far below and above each size limit the device replies go.
MaxReplyMargin == 1
\* Native requests one run of the counter specification forwards.
MaxMessages == 257
\* Unread bytes that can wait in the native-side port.
MaxWaiting == 3
\* Portions of noise without a start byte in front of the device's reply.
MaxNoisePortions == 200
\* Headers with a wrong checksum in front of the device's reply.
MaxBadHeaders == 100
\* Event names one addEvents call registers.
MaxEventArgs == 2
\* Transactions of one ackTransaction call of the Smart-mode specification.
MaxAckTransactions == 2
\* Cap of the device timeout counter of the delay specification.
MaxDelayTimeouts == 51

\* ------------------------------------------------ Parameter (Par) -------
\* Par.status is None until the first device report: None is the empty
\* sequence, a reported value v is <<v>>.
None == <<>>

ParValues == 0 .. MaxParValue

\* Par.__init__: value = reqType(), status = None.
ParInit(default) == [value |-> default, status |-> None]

\* Par.inSync
inSync(p) == <<p.value>> = p.status

\* Par.set that also overwrites the confirmed value.
ParSetConfirms(p, newValue) ==
    [par |-> [value |-> newValue, status |-> <<newValue>>],
     emitted |-> <<"altered">>]

\* Par.__set__ / Par.set: assigns the requested value, notifies 'altered'.
ParSet(p, newValue) ==
    [par |-> [value |-> newValue, status |-> p.status],
     emitted |-> <<"altered">>]

\* Par.ack with the condition "value == status" dropped from the
\* 'unexpected' branch.
ParAckAnyChange(p, obtainedValue) ==
    IF <<obtainedValue>> = p.status
    THEN [par |-> p, emitted |-> <<>>]
    ELSE LET first  == IF p.status = None THEN <<"connection">> ELSE <<>>
             middle == IF obtainedValue = p.value THEN <<"updated">>
                       ELSE IF p.status # <<obtainedValue>>
                            THEN <<"unexpected">>
                            ELSE <<>>
         IN  [par |-> [value |-> p.value, status |-> <<obtainedValue>>],
              emitted |-> first \o middle \o <<"new">>]

\* Par.ack with 'unexpected' notified on the first report as well.
ParAckFirstReportUnexpected(p, obtainedValue) ==
    IF <<obtainedValue>> = p.status
    THEN [par |-> p, emitted |-> <<>>]
    ELSE LET first  == IF p.status = None THEN <<"connection">> ELSE <<>>
             middle == IF obtainedValue = p.value THEN <<"updated">>
                       ELSE IF p.status = None \/ <<p.value>> = p.status
                            THEN <<"unexpected">>
                            ELSE <<>>
         IN  [par |-> [value |-> p.value, status |-> <<obtainedValue>>],
              emitted |-> first \o middle \o <<"new">>]

\* Par.ack that stores the confirmed value only in the 'updated' branch.
ParAckStoresOnUpdateOnly(p, obtainedValue) ==
    IF <<obtainedValue>> = p.status
    THEN [par |-> p, emitted |-> <<>>]
    ELSE LET first  == IF p.status = None THEN <<"connection">> ELSE <<>>
             middle == IF obtainedValue = p.value THEN <<"updated">>
                       ELSE IF <<p.value>> = p.status /\ p.status # <<obtainedValue>>
                            THEN <<"unexpected">>
                            ELSE <<>>
         IN  [par |-> [value |-> p.value,
                       status |-> IF obtainedValue = p.value
                                  THEN <<obtainedValue>> ELSE p.status],
              emitted |-> first \o middle \o <<"new">>]

\* Par.ack: the events it notifies, in order, and the Parameter afterwards.
ParAck(p, obtainedValue) ==
    IF <<obtainedValue>> = p.status
    THEN [par |-> p, emitted |-> <<>>]
    ELSE LET first  == IF p.status = None THEN <<"connection">> ELSE <<>>
             middle == IF obtainedValue = p.value THEN <<"updated">>
                       ELSE IF <<p.value>> = p.status /\ p.status # <<obtainedValue>>
                            THEN <<"unexpected">>
                            ELSE <<>>
         IN  [par |-> [value |-> p.value, status |-> <<obtainedValue>>],
              emitted |-> first \o middle \o <<"new">>]

\* ------------------------------------------------------------ state -----
VARIABLES
    device,          \* App.device: number of the active adapter instance, 0 = None
    lock,            \* Device.lock of every adapter instance: the thread holding it
    POWER,           \* SONY.POWER, a class-level Par (shared by all instances)
    appOpen,         \* App.appInt.is_open  (native-side virtual port)
    devOpen,         \* App.devInt.is_open  (device port)
    commThread,      \* App.commThread is not None
    ncsThread,       \* App.ncsThread is not None
    stopRef,         \* the worker whose Event App.stopEvent refers to
    commStop,        \* is_set() of the Event given to commLoop
    ncsStop,         \* is_set() of the Event given to ncsLoop
    commRunning,     \* App.commRunning
    nativeSoftConnEstablished,
    interactWithNativeSoft,
    appTimeouts,     \* App.appInt.nTimeouts
    devTimeouts,     \* App.devInt.nTimeouts
    nativeData,      \* App.nativeData
    deviceData,      \* App.deviceData
    commPc,          \* position of the Continuous worker in commLoop
    ncsPc,           \* position of the Smart worker in ncsLoop / transaction
    ncsLock,         \* adapter instance whose lock the Smart worker holds, 0 = none
    ncsState,        \* what transaction() returned to ncsLoop
    cmdPc,           \* position of the command thread inside an API call
    status,          \* the command thread's latest API call and what it returned
    calls,           \* API calls the command thread has made
    commNotified,    \* events commLoop notified in its latest notifying step of this iteration
    cmdNotified,     \* events notified by the command thread's latest API call
    nCommStopped,    \* 'comm stopped' events of the current Continuous loop
    ioAfterStop,     \* port calls the running commLoop completed since its stop Event was set
    commIo,          \* commLoop's latest port call of this iteration and its outcome
    commAdapter,     \* adapter instance the running commLoop called last, 0 = none yet
    par,             \* Parameter specification: the Par under test
    parBefore,       \* Parameter specification: the Par before the latest operation
    parEmitted,      \* Parameter specification: events of the latest operation
    parOp,           \* Parameter specification: the latest operation and its argument
    rxBuf,           \* Wire specification: bytes waiting in the port's input buffer
    wireOps,         \* Wire specification: the calls made so far and what they gave
    txMsg,           \* Send specification: the payload given to sendPacket
    txResult,        \* Send specification: "ok" or the exception sendPacket raised
    txLine,          \* Send specification: the bytes written, until they are read
    txEcho,          \* Send specification: what receivePacket made of them
    sumData,         \* Checksum specification: the byte string d
    sumOut,          \* Checksum specification: rfc1071(d)
    sumCheck,        \* Checksum specification: rfc1071(d + rfc1071(d))
    ackPars,         \* Ack specification: the adapter's Parameters
    ackData,         \* Ack specification: App.deviceData
    ackOpen,         \* Ack specification: App.devInt.is_open
    ackCount,        \* Ack specification: transactions this ackTransaction call has issued
    ackPc,           \* Ack specification: position inside ackTransaction
    ackResult,       \* Ack specification: how the latest ackTransaction call left its loop
    ackReport,        \* Ack specification: Parameters the latest call logged as failed
    natIn,           \* Native specification: bytes waiting in the native-side port
    natBefore,       \* Native specification: the bytes that were waiting before the latest receiveNative
    natOut,           \* Native specification: what the latest receiveNative call came to
    snPars,          \* Adapter specification: the Parameters of SONY
    snCntIn,         \* Adapter specification: SONY.CNT_IN, a Prop (None or a count)
    snCntOut,        \* Adapter specification: SONY.CNT_OUT, a Prop (None or the echoed byte)
    snWraps,         \* Adapter specification: native messages wrapped so far
    snBefore,        \* Adapter specification: Parameters and Properties before the latest call
    snOp,             \* Adapter specification: the latest wrap / unwrap call and what it came to
    fcbCntIn,        \* Counter specification: SONY.CNT_IN of fcb_protocol.py, the raw count
    fcbCntOut,       \* Counter specification: SONY.CNT_OUT, the counter byte of the latest reply
    fcbAttempt,      \* Counter specification: n of the retry loop
    fcbPc,           \* Counter specification: position inside communicate
    fcbSent,         \* Counter specification: the counter byte of the packet sent last
    fcbResult,        \* Counter specification: how the retry loop of the latest message ended
    stIn,            \* Stop specification: bytes waiting in the native-side port
    stPc,            \* Stop specification: position of commLoop, down to the reads of readUpToFirstFF
    stGot,           \* Stop specification: bytes of the native message read so far
    stStop,          \* Stop specification: is_set() of the stop Event
    stCall,           \* Stop specification: the stopComm call: not made, joining, returned
    scIn,            \* Scan specification: bytes that arrive at the device port before the read timeout
    scOut,            \* Scan specification: outcome of receivePacket and the portions its scan read
    ntEvents,        \* Notifier specification: Notifier.events, event name -> handlers in the order they were added
    ntAdded,         \* Notifier specification: the (event, handler) pairs addHandler has accepted
    ntOp,            \* Notifier specification: the latest Notifier call and its event
    ntCalled,        \* Notifier specification: handlers the latest notify has called, in order
    ntResult,         \* Notifier specification: what the latest call returned or raised
    shPc,            \* Smart-mode specification: position of the ncsLoop thread and of the thread that runs ackTransaction
    shLock,          \* Smart-mode specification: holder of the adapter's lock
    shDevOpen,       \* Smart-mode specification: devInt.is_open
    shState,         \* Smart-mode specification: what each thread's latest transaction() returned
    shCount,          \* Smart-mode specification: transactions of the running ackTransaction call
    dlPc,            \* Delay specification: position of commLoop: stop check, device read, wait after a timeout, done
    dlTimeouts,      \* Delay specification: devInt.nTimeouts
    dlLeft,          \* Delay specification: what is left of the wait, in half seconds
    dlStop           \* Delay specification: is_set() of the loop's stop Event

orchVars == <<device, lock, POWER, appOpen, devOpen, commThread, ncsThread,
              stopRef, commStop, ncsStop, commRunning, nativeSoftConnEstablished,
              interactWithNativeSoft, appTimeouts, devTimeouts, nativeData,
              deviceData, commPc, ncsPc, ncsLock, ncsState, cmdPc, status, calls,
              commNotified, cmdNotified, nCommStopped, ioAfterStop, commIo,
              commAdapter>>

parVars == <<par, parBefore, parEmitted, parOp>>

wireVars == <<rxBuf, wireOps>>

txVars == <<txMsg, txResult, txLine, txEcho>>

sumVars == <<sumData, sumOut, sumCheck>>

ackVars == <<ackPars, ackData, ackOpen, ackCount, ackPc, ackResult, ackReport>>

natVars == <<natIn, natBefore, natOut>>

sonyVars == <<snPars, snCntIn, snCntOut, snWraps, snBefore, snOp>>

fcbVars == <<fcbCntIn, fcbCntOut, fcbAttempt, fcbPc, fcbSent, fcbResult>>

stpVars == <<stIn, stPc, stGot, stStop, stCall>>

scanVars == <<scIn, scOut>>

notifyVars == <<ntEvents, ntAdded, ntOp, ntCalled, ntResult>>

shareVars == <<shPc, shLock, shDevOpen, shState, shCount>>

delayVars == <<dlPc, dlTimeouts, dlLeft, dlStop>>

vars == <<orchVars, parVars, wireVars, txVars, sumVars, ackVars, natVars, sonyVars, fcbVars, stpVars, scanVars, notifyVars, shareVars, delayVars>>

\* ------------------------------------------------------- data values ----
\* App.nativeData / App.deviceData = None
NoData == [kind |-> "None", flags |-> <<>>, valid |-> TRUE]

\* Device.IDLE_PAYLOAD, and a message read from the native control software
IDLE_PAYLOAD == [kind |-> "IDLE", flags |-> <<>>, valid |-> TRUE]

NativeMsg == [kind |-> "MSG", flags |-> <<>>, valid |-> TRUE]

\* SONY.wrap: the status byte (the Parameters' requested values) is put in
\* front of the payload.
wrap(data) == [kind |-> data.kind, flags |-> <<POWER.value>>, valid |-> TRUE]

\* A reply packet of the device as PelengTransceiver.receivePacket returns it:
\* its status byte and whether its size passes SONY.validateReply.
Replies == [kind : {"REPLY"}, flags : {<<FALSE>>, <<TRUE>>}, valid : BOOLEAN]

\* SONY.unwrap: packet[2:]
unwrapped(packet) == [kind |-> "PAYLOAD", flags |-> <<>>, valid |-> TRUE]

\* Outcomes of a read / of a write on a serial port.  A closed port raises
\* a SerialException on every use.
\*   timeout   : SerialReadTimeoutError
\*   integrity : BadDataError, BadRfcError, SerialCommunicationError, DataInvalidError
\*   wtimeout  : SerialWriteTimeoutError
\*   fatal     : any other SerialError or exception
ReadOutcomes(isOpen) ==
    IF isOpen THEN {"ok", "timeout", "integrity", "fatal"} ELSE {"fatal"}

WriteOutcomes(isOpen) ==
    IF isOpen THEN {"ok", "wtimeout", "fatal"} ELSE {"fatal"}

\* A port call of commLoop (receiveNative, sendPacket, receivePacket,
\* sendNative: each one or more blocking reads or writes), counted once its
\* stop Event is set.
CountIo == ioAfterStop' = IF commStop THEN ioAfterStop + 1 ELSE ioAfterStop

\* ------------------------------------------------------------- Init -----
\* App.__init__ ; the Parameter specification starts from Par.__init__.
OrchInit ==
    /\ device = 0
    /\ lock = [d \in 1 .. MaxDevices |-> "none"]
    /\ POWER = ParInit(FALSE)
    /\ appOpen = FALSE /\ devOpen = FALSE
    /\ commThread = FALSE /\ ncsThread = FALSE
    /\ stopRef = "none" /\ commStop = FALSE /\ ncsStop = FALSE
    /\ commRunning = FALSE
    /\ nativeSoftConnEstablished = FALSE
    /\ interactWithNativeSoft = TRUE
    /\ appTimeouts = 0 /\ devTimeouts = 0
    /\ nativeData = NoData /\ deviceData = NoData
    /\ commPc = "off" /\ ncsPc = "off" /\ cmdPc = "idle"
    /\ ncsLock = 0 /\ ncsState = "None"
    /\ status = <<"-", "-">>
    /\ calls = 0
    /\ commNotified = <<>> /\ cmdNotified = <<>>
    /\ nCommStopped = 0
    /\ ioAfterStop = 0
    /\ commIo = <<>>
    /\ commAdapter = 0

ParSpecInit ==
    /\ par = ParInit(0)
    /\ parBefore = ParInit(0)
    /\ parEmitted = <<>>
    /\ parOp = <<"init", 0>>

\* ------------------------------------------- Continuous worker ----------

\* commLoop lines 389-393
CommBegin ==
    /\ commPc = "begin"
    /\ commNotified' = <<"comm started">>
    /\ commRunning' = TRUE
    /\ nativeSoftConnEstablished' = FALSE
    /\ commPc' = "check"
    /\ UNCHANGED <<parVars, wireVars, txVars, sumVars, ackVars, natVars,
                   sonyVars, fcbVars, stpVars, scanVars, notifyVars,
                   shareVars, delayVars, device, lock, POWER, appOpen,
                   devOpen, commThread, ncsThread, stopRef, commStop,
                   ncsStop, interactWithNativeSoft, appTimeouts, devTimeouts,
                   nativeData, deviceData, ncsPc, ncsLock, ncsState, cmdPc,
                   status, calls, cmdNotified, nCommStopped, ioAfterStop,
                   commIo, commAdapter>>

\* commLoop with the stop check left out: the loop never breaks.
CommCheckNoBreak ==
    /\ commPc = "check"
    /\ nativeData' = NoData
    /\ deviceData' = NoData
    /\ commNotified' = <<>>
    /\ commIo' = <<>>
    /\ commPc' = "recvNative"
    /\ UNCHANGED <<parVars, wireVars, txVars, sumVars, ackVars, natVars,
                   sonyVars, fcbVars, stpVars, scanVars, notifyVars,
                   shareVars, delayVars, device, lock, POWER, appOpen,
                   devOpen, commThread, ncsThread, stopRef, commStop,
                   ncsStop, commRunning, nativeSoftConnEstablished,
                   interactWithNativeSoft, appTimeouts, devTimeouts, ncsPc,
                   ncsLock, ncsState, cmdPc, status, calls, cmdNotified,
                   nCommStopped, ioAfterStop, commAdapter>>

\* commLoop lines 395-398: the top of an iteration, the only stop check
CommCheck ==
    /\ commPc = "check"
    /\ nativeData' = NoData
    /\ deviceData' = NoData
    /\ commNotified' = <<>>
    /\ commIo' = <<>>
    /\ commPc' = IF commStop THEN "finally" ELSE "recvNative"
    /\ UNCHANGED <<parVars, wireVars, txVars, sumVars, ackVars, natVars,
                   sonyVars, fcbVars, stpVars, scanVars, notifyVars,
                   shareVars, delayVars, device, lock, POWER, appOpen,
                   devOpen, commThread, ncsThread, stopRef, commStop,
                   ncsStop, commRunning, nativeSoftConnEstablished,
                   interactWithNativeSoft, appTimeouts, devTimeouts, ncsPc,
                   ncsLock, ncsState, cmdPc, status, calls, cmdNotified,
                   nCommStopped, ioAfterStop, commAdapter>>

\* commLoop lines 400-405 with controlSoftErrorsHandler (lines 307-346)
CommReceiveNative(outcome) ==
    /\ commPc = "recvNative"
    /\ IF interactWithNativeSoft
       THEN /\ outcome \in ReadOutcomes(appOpen)
            /\ CountIo
            /\ commIo' = <<"receiveNative", outcome>>
       ELSE /\ outcome = IF appOpen THEN "ok" ELSE "fatal"
            /\ commIo' = IF appOpen THEN commIo ELSE <<"in_waiting", "fatal">>
            /\ UNCHANGED ioAfterStop
    /\ outcome = "timeout" => appTimeouts < MaxTimeouts
    /\ commAdapter' = device
    /\ CASE outcome = "ok" ->
              /\ nativeData' = IF interactWithNativeSoft THEN NativeMsg
                               ELSE IDLE_PAYLOAD
              /\ appTimeouts' = 0
              /\ nativeSoftConnEstablished' = TRUE
              /\ commPc' = "wrap"
              /\ UNCHANGED commNotified
         [] outcome = "timeout" ->
              /\ appTimeouts' = appTimeouts + 1
              /\ commNotified' = Append(commNotified, "comm timeout")
              /\ nativeData' = IDLE_PAYLOAD
              /\ commPc' = "wrap"
              /\ UNCHANGED nativeSoftConnEstablished
         [] outcome = "integrity" ->
              /\ commNotified' = Append(commNotified, "comm error")
              /\ nativeData' = IDLE_PAYLOAD
              /\ commPc' = "wrap"
              /\ UNCHANGED <<appTimeouts, nativeSoftConnEstablished>>
         [] outcome = "fatal" ->
              /\ commNotified' = Append(commNotified, "comm failed")
              /\ commPc' = "finally"
              /\ UNCHANGED <<appTimeouts, nativeSoftConnEstablished, nativeData>>
    /\ UNCHANGED <<parVars, wireVars, txVars, sumVars, ackVars, natVars,
                   sonyVars, fcbVars, stpVars, scanVars, notifyVars,
                   shareVars, delayVars, device, lock, POWER, appOpen,
                   devOpen, commThread, ncsThread, stopRef, commStop,
                   ncsStop, commRunning, interactWithNativeSoft, devTimeouts,
                   deviceData, ncsPc, ncsLock, ncsState, cmdPc, status,
                   calls, cmdNotified, nCommStopped>>

\* commLoop line 407: SONY.wrap takes the active adapter's lock
CommWrap ==
    /\ commPc = "wrap"
    /\ lock[device] = "none"
    /\ commAdapter' = device
    /\ nativeData' = wrap(nativeData)
    /\ commPc' = "send"
    /\ UNCHANGED <<parVars, wireVars, txVars, sumVars, ackVars, natVars,
                   sonyVars, fcbVars, stpVars, scanVars, notifyVars,
                   shareVars, delayVars, device, lock, POWER, appOpen,
                   devOpen, commThread, ncsThread, stopRef, commStop,
                   ncsStop, commRunning, nativeSoftConnEstablished,
                   interactWithNativeSoft, appTimeouts, devTimeouts,
                   deviceData, ncsPc, ncsLock, ncsState, cmdPc, status,
                   calls, commNotified, cmdNotified, nCommStopped,
                   ioAfterStop, commIo>>

\* commLoop lines 408-413 with a write timeout taken as fatal.
CommSendPacketFatal(outcome) ==
    /\ commPc = "send"
    /\ outcome \in WriteOutcomes(devOpen)
    /\ CountIo
    /\ commIo' = <<"sendPacket", outcome>>
    /\ IF outcome = "ok"
       THEN commPc' = "recv" /\ UNCHANGED commNotified
       ELSE /\ commNotified' = Append(commNotified, "comm failed")
            /\ commPc' = "finally"
    /\ UNCHANGED <<parVars, wireVars, txVars, sumVars, ackVars, natVars,
                   sonyVars, fcbVars, stpVars, scanVars, notifyVars,
                   shareVars, delayVars, device, lock, POWER, appOpen,
                   devOpen, commThread, ncsThread, stopRef, commStop,
                   ncsStop, commRunning, nativeSoftConnEstablished,
                   interactWithNativeSoft, appTimeouts, devTimeouts,
                   nativeData, deviceData, ncsPc, ncsLock, ncsState, cmdPc,
                   status, calls, cmdNotified, nCommStopped, commAdapter>>

\* commLoop lines 408-413
CommSendPacket(outcome) ==
    /\ commPc = "send"
    /\ outcome \in WriteOutcomes(devOpen)
    /\ CountIo
    /\ commIo' = <<"sendPacket", outcome>>
    /\ CASE outcome = "ok" ->
              commPc' = "recv" /\ UNCHANGED commNotified
         [] outcome = "wtimeout" ->
              /\ commNotified' = Append(commNotified, "comm error")
              /\ commPc' = "check"
         [] outcome = "fatal" ->
              /\ commNotified' = Append(commNotified, "comm failed")
              /\ commPc' = "finally"
    /\ UNCHANGED <<parVars, wireVars, txVars, sumVars, ackVars, natVars,
                   sonyVars, fcbVars, stpVars, scanVars, notifyVars,
                   shareVars, delayVars, device, lock, POWER, appOpen,
                   devOpen, commThread, ncsThread, stopRef, commStop,
                   ncsStop, commRunning, nativeSoftConnEstablished,
                   interactWithNativeSoft, appTimeouts, devTimeouts,
                   nativeData, deviceData, ncsPc, ncsLock, ncsState, cmdPc,
                   status, calls, cmdNotified, nCommStopped, commAdapter>>

\* commLoop lines 415-417 with a deviceErrorsHandler that lets the integrity
\* failures through to commLoop's outer handlers.
CommReceivePacketStrict(outcome, reply) ==
    /\ commPc = "recv"
    /\ outcome \in ReadOutcomes(devOpen)
    /\ reply \in Replies
    /\ outcome = "timeout" => devTimeouts < MaxTimeouts
    /\ CountIo
    /\ commIo' = <<"receivePacket", outcome>>
    /\ CASE outcome = "ok" ->
              /\ deviceData' = reply
              /\ devTimeouts' = 0
              /\ commPc' = "unwrap"
              /\ UNCHANGED commNotified
         [] outcome = "timeout" ->
              /\ devTimeouts' = devTimeouts + 1
              /\ commNotified' = Append(commNotified, "comm timeout")
              /\ commPc' = "check"
              /\ UNCHANGED deviceData
         [] outcome \in {"integrity", "fatal"} ->
              /\ commNotified' = Append(commNotified, "comm failed")
              /\ commPc' = "finally"
              /\ UNCHANGED <<deviceData, devTimeouts>>
    /\ UNCHANGED <<parVars, wireVars, txVars, sumVars, ackVars, natVars,
                   sonyVars, fcbVars, stpVars, scanVars, notifyVars,
                   shareVars, delayVars, device, lock, POWER, appOpen,
                   devOpen, commThread, ncsThread, stopRef, commStop,
                   ncsStop, commRunning, nativeSoftConnEstablished,
                   interactWithNativeSoft, appTimeouts, nativeData, ncsPc,
                   ncsLock, ncsState, cmdPc, status, calls, cmdNotified,
                   nCommStopped, commAdapter>>

\* commLoop lines 415-417 with deviceErrorsHandler (lines 348-386); after a
\* read timeout the handler sleeps in stopEvent.wait() and then returns.
CommReceivePacket(outcome, reply) ==
    /\ commPc = "recv"
    /\ outcome \in ReadOutcomes(devOpen)
    /\ reply \in Replies
    /\ outcome = "timeout" => devTimeouts < MaxTimeouts
    /\ CountIo
    /\ commIo' = <<"receivePacket", outcome>>
    /\ CASE outcome = "ok" ->
              /\ deviceData' = reply
              /\ devTimeouts' = 0
              /\ commPc' = "unwrap"
              /\ UNCHANGED commNotified
         [] outcome = "timeout" ->
              /\ devTimeouts' = devTimeouts + 1
              /\ commNotified' = Append(commNotified, "comm timeout")
              /\ commPc' = "check"
              /\ UNCHANGED deviceData
         [] outcome = "integrity" ->
              /\ commNotified' = Append(commNotified, "comm error")
              /\ commPc' = "check"
              /\ UNCHANGED <<deviceData, devTimeouts>>
         [] outcome = "fatal" ->
              /\ commNotified' = Append(commNotified, "comm failed")
              /\ commPc' = "finally"
              /\ UNCHANGED <<deviceData, devTimeouts>>
    /\ UNCHANGED <<parVars, wireVars, txVars, sumVars, ackVars, natVars,
                   sonyVars, fcbVars, stpVars, scanVars, notifyVars,
                   shareVars, delayVars, device, lock, POWER, appOpen,
                   devOpen, commThread, ncsThread, stopRef, commStop,
                   ncsStop, commRunning, nativeSoftConnEstablished,
                   interactWithNativeSoft, appTimeouts, nativeData, ncsPc,
                   ncsLock, ncsState, cmdPc, status, calls, cmdNotified,
                   nCommStopped, commAdapter>>

\* commLoop with line 419 left out: the reply goes to the native side as it
\* was received.
CommUnwrapSkipped(flag) ==
    /\ commPc = "unwrap"
    /\ flag = FALSE
    /\ commAdapter' = device
    /\ commPc' = "sendNative"
    /\ UNCHANGED <<parVars, wireVars, txVars, sumVars, ackVars, natVars,
                   sonyVars, fcbVars, stpVars, scanVars, notifyVars,
                   shareVars, delayVars, device, lock, POWER, appOpen,
                   devOpen, commThread, ncsThread, stopRef, commStop,
                   ncsStop, commRunning, nativeSoftConnEstablished,
                   interactWithNativeSoft, appTimeouts, devTimeouts,
                   nativeData, deviceData, ncsPc, ncsLock, ncsState, cmdPc,
                   status, calls, commNotified, cmdNotified, nCommStopped,
                   ioAfterStop, commIo>>

\* commLoop line 419: SONY.unwrap.  validateReply raises DataInvalidError
\* outside every recovery scope (caught at line 440); the acks run under
\* the active adapter's lock.  App.deviceData is shared with ncsLoop: when
\* that has overwritten it, None raises and an unwrapped payload is parsed
\* as a packet, whatever its first byte holds.
CommUnwrap(flag) ==
    /\ commPc = "unwrap"
    /\ flag \in BOOLEAN
    /\ commAdapter' = device
    /\ IF deviceData.kind # "None" /\ deviceData.valid
       THEN /\ deviceData.kind = "REPLY" => flag = deviceData.flags[1]
            /\ lock[device] = "none"
            /\ POWER' = ParAck(POWER, flag).par
            /\ deviceData' = unwrapped(deviceData)
            /\ commPc' = "sendNative"
            /\ UNCHANGED <<commNotified, commIo>>
       ELSE /\ flag = FALSE
            /\ commNotified' = Append(commNotified, "comm failed")
            /\ commIo' = <<"unwrap", "fatal">>
            /\ commPc' = "finally"
            /\ UNCHANGED <<POWER, deviceData>>
    /\ UNCHANGED <<parVars, wireVars, txVars, sumVars, ackVars, natVars,
                   sonyVars, fcbVars, stpVars, scanVars, notifyVars,
                   shareVars, delayVars, device, lock, appOpen, devOpen,
                   commThread, ncsThread, stopRef, commStop, ncsStop,
                   commRunning, nativeSoftConnEstablished,
                   interactWithNativeSoft, appTimeouts, devTimeouts,
                   nativeData, ncsPc, ncsLock, ncsState, cmdPc, status,
                   calls, cmdNotified, nCommStopped, ioAfterStop>>

\* commLoop lines 420-433 with a test of interactWithNativeSoft alone at
\* line 421.
CommSendNativeAnyCount(outcome) ==
    /\ commPc = "sendNative"
    /\ IF interactWithNativeSoft
       THEN /\ outcome \in WriteOutcomes(appOpen)
            /\ CountIo
            /\ commIo' = <<"sendNative", outcome>>
            /\ commAdapter' = device
       ELSE /\ outcome = "ok"
            /\ UNCHANGED <<ioAfterStop, commIo, commAdapter>>
    /\ CASE outcome = "ok" ->
              /\ commNotified' = Append(commNotified, "comm ok")
              /\ commPc' = "check"
         [] outcome = "wtimeout" ->
              /\ commNotified' = IF nativeSoftConnEstablished
                                 THEN commNotified \o <<"comm error", "comm ok">>
                                 ELSE Append(commNotified, "comm ok")
              /\ commPc' = "check"
         [] outcome = "fatal" ->
              /\ commNotified' = Append(commNotified, "comm failed")
              /\ commPc' = "finally"
    /\ UNCHANGED <<parVars, wireVars, txVars, sumVars, ackVars, natVars,
                   sonyVars, fcbVars, stpVars, scanVars, notifyVars,
                   shareVars, delayVars, device, lock, POWER, appOpen,
                   devOpen, commThread, ncsThread, stopRef, commStop,
                   ncsStop, commRunning, nativeSoftConnEstablished,
                   interactWithNativeSoft, appTimeouts, devTimeouts,
                   nativeData, deviceData, ncsPc, ncsLock, ncsState, cmdPc,
                   status, calls, cmdNotified, nCommStopped>>

\* commLoop lines 420-433
CommSendNative(outcome) ==
    /\ commPc = "sendNative"
    /\ IF interactWithNativeSoft /\ appTimeouts = 0
       THEN /\ outcome \in WriteOutcomes(appOpen)
            /\ CountIo
            /\ commIo' = <<"sendNative", outcome>>
            /\ commAdapter' = device
       ELSE /\ outcome = "ok"
            /\ UNCHANGED <<ioAfterStop, commIo, commAdapter>>
    /\ CASE outcome = "ok" ->
              /\ commNotified' = Append(commNotified, "comm ok")
              /\ commPc' = "check"
         [] outcome = "wtimeout" ->
              /\ commNotified' = IF nativeSoftConnEstablished
                                 THEN commNotified \o <<"comm error", "comm ok">>
                                 ELSE Append(commNotified, "comm ok")
              /\ commPc' = "check"
         [] outcome = "fatal" ->
              /\ commNotified' = Append(commNotified, "comm failed")
              /\ commPc' = "finally"
    /\ UNCHANGED <<parVars, wireVars, txVars, sumVars, ackVars, natVars,
                   sonyVars, fcbVars, stpVars, scanVars, notifyVars,
                   shareVars, delayVars, device, lock, POWER, appOpen,
                   devOpen, commThread, ncsThread, stopRef, commStop,
                   ncsStop, commRunning, nativeSoftConnEstablished,
                   interactWithNativeSoft, appTimeouts, devTimeouts,
                   nativeData, deviceData, ncsPc, ncsLock, ncsState, cmdPc,
                   status, calls, cmdNotified, nCommStopped>>

\* commLoop lines 444-450 with the timeout counters left as they are.
CommFinallyKeepCounters ==
    /\ commPc = "finally"
    /\ appOpen' = FALSE
    /\ devOpen' = FALSE
    /\ commRunning' = FALSE
    /\ commNotified' = Append(commNotified, "comm stopped")
    /\ nCommStopped' = nCommStopped + 1
    /\ ioAfterStop' = 0
    /\ commAdapter' = 0
    /\ commPc' = "off"
    /\ UNCHANGED <<parVars, wireVars, txVars, sumVars, ackVars, natVars,
                   sonyVars, fcbVars, stpVars, scanVars, notifyVars,
                   shareVars, delayVars, device, lock, POWER, commThread,
                   ncsThread, stopRef, commStop, ncsStop,
                   nativeSoftConnEstablished, interactWithNativeSoft,
                   appTimeouts, devTimeouts, nativeData, deviceData, ncsPc,
                   ncsLock, ncsState, cmdPc, status, calls, cmdNotified,
                   commIo>>

\* commLoop lines 444-450: the guaranteed-cleanup path; the thread ends.
CommFinally ==
    /\ commPc = "finally"
    /\ appOpen' = FALSE
    /\ devOpen' = FALSE
    /\ appTimeouts' = 0
    /\ devTimeouts' = 0
    /\ commRunning' = FALSE
    /\ commNotified' = Append(commNotified, "comm stopped")
    /\ nCommStopped' = nCommStopped + 1
    /\ ioAfterStop' = 0
    /\ commAdapter' = 0
    /\ commPc' = "off"
    /\ UNCHANGED <<parVars, wireVars, txVars, sumVars, ackVars, natVars,
                   sonyVars, fcbVars, stpVars, scanVars, notifyVars,
                   shareVars, delayVars, device, lock, POWER, commThread,
                   ncsThread, stopRef, commStop, ncsStop,
                   nativeSoftConnEstablished, interactWithNativeSoft,
                   nativeData, deviceData, ncsPc, ncsLock, ncsState, cmdPc,
                   status, calls, cmdNotified, commIo>>

CommStep ==
    \/ CommBegin
    \/ CommCheck
    \/ \E outcome \in {"ok", "timeout", "integrity", "fatal"} :
          CommReceiveNative(outcome)
    \/ CommWrap
    \/ \E outcome \in {"ok", "wtimeout", "fatal"} : CommSendPacket(outcome)
    \/ \E outcome \in {"ok", "timeout", "integrity", "fatal"}, reply \in Replies :
          CommReceivePacket(outcome, reply)
    \/ \E flag \in BOOLEAN : CommUnwrap(flag)
    \/ \E outcome \in {"ok", "wtimeout", "fatal"} : CommSendNative(outcome)
    \/ CommFinally

\* ------------------------------------------------ Smart worker ----------
\* The adapter lock the Smart worker holds is given back (end of the
\* "with self.device.lock" block of transaction()).
Released ==
    IF ncsLock = 0 THEN lock ELSE [lock EXCEPT ![ncsLock] = "none"]

\* ncsLoop line 453
NcsBegin ==
    /\ ncsPc = "begin"
    /\ ncsPc' = "check"
    /\ UNCHANGED <<parVars, wireVars, txVars, sumVars, ackVars, natVars,
                   sonyVars, fcbVars, stpVars, scanVars, notifyVars,
                   shareVars, delayVars, device, lock, POWER, appOpen,
                   devOpen, commThread, ncsThread, stopRef, commStop,
                   ncsStop, commRunning, nativeSoftConnEstablished,
                   interactWithNativeSoft, appTimeouts, devTimeouts,
                   nativeData, deviceData, commPc, ncsLock, ncsState, cmdPc,
                   status, calls, commNotified, cmdNotified, nCommStopped,
                   ioAfterStop, commIo, commAdapter>>

\* ncsLoop lines 457-459
NcsCheck ==
    /\ ncsPc = "check"
    /\ ncsPc' = IF ncsStop THEN "finally" ELSE "recv"
    /\ UNCHANGED <<parVars, wireVars, txVars, sumVars, ackVars, natVars,
                   sonyVars, fcbVars, stpVars, scanVars, notifyVars,
                   shareVars, delayVars, device, lock, POWER, appOpen,
                   devOpen, commThread, ncsThread, stopRef, commStop,
                   ncsStop, commRunning, nativeSoftConnEstablished,
                   interactWithNativeSoft, appTimeouts, devTimeouts,
                   nativeData, deviceData, commPc, ncsLock, ncsState, cmdPc,
                   status, calls, commNotified, cmdNotified, nCommStopped,
                   ioAfterStop, commIo, commAdapter>>

\* ncsLoop lines 460-468
NcsReceiveNative(outcome) ==
    /\ ncsPc = "recv"
    /\ outcome \in ReadOutcomes(appOpen)
    /\ CASE outcome = "ok" ->
              /\ nativeData' = NativeMsg
              /\ ncsPc' = "txLock"
         [] outcome \in {"timeout", "integrity"} ->
              /\ ncsPc' = "check"
              /\ UNCHANGED nativeData
         [] outcome = "fatal" ->
              /\ ncsPc' = "finally"
              /\ UNCHANGED nativeData
    /\ UNCHANGED <<parVars, wireVars, txVars, sumVars, ackVars, natVars,
                   sonyVars, fcbVars, stpVars, scanVars, notifyVars,
                   shareVars, delayVars, device, lock, POWER, appOpen,
                   devOpen, commThread, ncsThread, stopRef, commStop,
                   ncsStop, commRunning, nativeSoftConnEstablished,
                   interactWithNativeSoft, appTimeouts, devTimeouts,
                   deviceData, commPc, ncsLock, ncsState, cmdPc, status,
                   calls, commNotified, cmdNotified, nCommStopped,
                   ioAfterStop, commIo, commAdapter>>

\* transaction line 496: "with self.device.lock"
NcsTxLock ==
    /\ ncsPc = "txLock"
    /\ lock[device] = "none"
    /\ lock' = [lock EXCEPT ![device] = "ncs"]
    /\ ncsLock' = device
    /\ ncsPc' = "txWrap"
    /\ UNCHANGED <<parVars, wireVars, txVars, sumVars, ackVars, natVars,
                   sonyVars, fcbVars, stpVars, scanVars, notifyVars,
                   shareVars, delayVars, device, POWER, appOpen, devOpen,
                   commThread, ncsThread, stopRef, commStop, ncsStop,
                   commRunning, nativeSoftConnEstablished,
                   interactWithNativeSoft, appTimeouts, devTimeouts,
                   nativeData, deviceData, commPc, ncsState, cmdPc, status,
                   calls, commNotified, cmdNotified, nCommStopped,
                   ioAfterStop, commIo, commAdapter>>

\* transaction lines 497-507: wrap (under the lock of the adapter that is
\* active now, re-entrant for its holder), then open the device port if
\* it is closed.
NcsTxWrap(openFails) ==
    /\ ncsPc = "txWrap"
    /\ lock[device] \in {"none", "ncs"}
    /\ IF devOpen
       THEN /\ openFails = FALSE
            /\ ncsPc' = "txSend"
            /\ UNCHANGED <<devOpen, lock, ncsLock, ncsState>>
       ELSE IF openFails
            THEN /\ ncsState' = "False"
                 /\ lock' = Released
                 /\ ncsLock' = 0
                 /\ ncsPc' = "afterTx"
                 /\ UNCHANGED devOpen
            ELSE /\ devOpen' = TRUE
                 /\ ncsPc' = "txSend"
                 /\ UNCHANGED <<lock, ncsLock, ncsState>>
    /\ UNCHANGED <<parVars, wireVars, txVars, sumVars, ackVars, natVars,
                   sonyVars, fcbVars, stpVars, scanVars, notifyVars,
                   shareVars, delayVars, device, POWER, appOpen, commThread,
                   ncsThread, stopRef, commStop, ncsStop, commRunning,
                   nativeSoftConnEstablished, interactWithNativeSoft,
                   appTimeouts, devTimeouts, nativeData, deviceData, commPc,
                   cmdPc, status, calls, commNotified, cmdNotified,
                   nCommStopped, ioAfterStop, commIo, commAdapter>>

\* transaction lines 508-513; any other SerialError leaves transaction()
\* and is caught by ncsLoop line 481
NcsTxSend(outcome) ==
    /\ ncsPc = "txSend"
    /\ outcome \in WriteOutcomes(devOpen)
    /\ CASE outcome = "ok" ->
              /\ ncsPc' = "txRecv"
              /\ UNCHANGED <<lock, ncsLock, ncsState>>
         [] outcome = "wtimeout" ->
              /\ ncsState' = "False"
              /\ lock' = Released
              /\ ncsLock' = 0
              /\ ncsPc' = "afterTx"
         [] outcome = "fatal" ->
              /\ lock' = Released
              /\ ncsLock' = 0
              /\ ncsPc' = "finally"
              /\ UNCHANGED ncsState
    /\ UNCHANGED <<parVars, wireVars, txVars, sumVars, ackVars, natVars,
                   sonyVars, fcbVars, stpVars, scanVars, notifyVars,
                   shareVars, delayVars, device, POWER, appOpen, devOpen,
                   commThread, ncsThread, stopRef, commStop, ncsStop,
                   commRunning, nativeSoftConnEstablished,
                   interactWithNativeSoft, appTimeouts, devTimeouts,
                   nativeData, deviceData, commPc, cmdPc, status, calls,
                   commNotified, cmdNotified, nCommStopped, ioAfterStop,
                   commIo, commAdapter>>

\* transaction lines 514-526 (closePort = False): receivePacket and unwrap;
\* every SerialError and DataInvalidError is caught here.
NcsTxReceive(outcome, reply) ==
    /\ ncsPc = "txRecv"
    /\ outcome \in ReadOutcomes(devOpen)
    /\ reply \in Replies
    /\ IF outcome = "ok" /\ reply.valid
       THEN /\ lock[device] \in {"none", "ncs"}
            /\ POWER' = ParAck(POWER, reply.flags[1]).par
            /\ deviceData' = unwrapped(reply)
            /\ ncsState' = "True"
       ELSE /\ ncsState' = "None"
            /\ UNCHANGED <<POWER, deviceData>>
    /\ lock' = Released
    /\ ncsLock' = 0
    /\ ncsPc' = "afterTx"
    /\ UNCHANGED <<parVars, wireVars, txVars, sumVars, ackVars, natVars,
                   sonyVars, fcbVars, stpVars, scanVars, notifyVars,
                   shareVars, delayVars, device, appOpen, devOpen,
                   commThread, ncsThread, stopRef, commStop, ncsStop,
                   commRunning, nativeSoftConnEstablished,
                   interactWithNativeSoft, appTimeouts, devTimeouts,
                   nativeData, commPc, cmdPc, status, calls, commNotified,
                   cmdNotified, nCommStopped, ioAfterStop, commIo,
                   commAdapter>>

\* ncsLoop lines 471-480: the reply (App.deviceData, which raises when commLoop
\* has reset it to None) goes to the native side if the transaction
\* succeeded; then the device port is closed unless more native
\* input is pending.
NcsAfterTx(outcome, pending) ==
    /\ ncsPc = "afterTx"
    /\ IF ncsState = "True"
       THEN outcome \in WriteOutcomes(appOpen /\ deviceData.kind # "None")
       ELSE outcome = IF appOpen THEN "ok" ELSE "fatal"
    /\ pending \in BOOLEAN
    /\ IF outcome = "fatal"
       THEN /\ pending = FALSE
            /\ ncsPc' = "finally"
            /\ UNCHANGED devOpen
       ELSE /\ devOpen' = IF pending THEN devOpen ELSE FALSE
            /\ ncsPc' = "check"
    /\ UNCHANGED <<parVars, wireVars, txVars, sumVars, ackVars, natVars,
                   sonyVars, fcbVars, stpVars, scanVars, notifyVars,
                   shareVars, delayVars, device, lock, POWER, appOpen,
                   commThread, ncsThread, stopRef, commStop, ncsStop,
                   commRunning, nativeSoftConnEstablished,
                   interactWithNativeSoft, appTimeouts, devTimeouts,
                   nativeData, deviceData, commPc, ncsLock, ncsState, cmdPc,
                   status, calls, commNotified, cmdNotified, nCommStopped,
                   ioAfterStop, commIo, commAdapter>>

\* ncsLoop lines 489-493; the thread ends.
NcsFinally ==
    /\ ncsPc = "finally"
    /\ appOpen' = FALSE
    /\ devOpen' = FALSE
    /\ ncsPc' = "off"
    /\ UNCHANGED <<parVars, wireVars, txVars, sumVars, ackVars, natVars,
                   sonyVars, fcbVars, stpVars, scanVars, notifyVars,
                   shareVars, delayVars, device, lock, POWER, commThread,
                   ncsThread, stopRef, commStop, ncsStop, commRunning,
                   nativeSoftConnEstablished, interactWithNativeSoft,
                   appTimeouts, devTimeouts, nativeData, deviceData, commPc,
                   ncsLock, ncsState, cmdPc, status, calls, commNotified,
                   cmdNotified, nCommStopped, ioAfterStop, commIo,
                   commAdapter>>

NcsStep ==
    \/ NcsBegin
    \/ NcsCheck
    \/ \E outcome \in {"ok", "timeout", "integrity", "fatal"} :
          NcsReceiveNative(outcome)
    \/ NcsTxLock
    \/ \E openFails \in BOOLEAN : NcsTxWrap(openFails)
    \/ \E outcome \in {"ok", "wtimeout", "fatal"} : NcsTxSend(outcome)
    \/ \E outcome \in {"ok", "timeout", "integrity", "fatal"}, reply \in Replies :
          NcsTxReceive(outcome, reply)
    \/ \E outcome \in {"ok", "wtimeout", "fatal"}, pending \in BOOLEAN :
          NcsAfterTx(outcome, pending)
    \/ NcsFinally

\* ---------------------------------------------- command thread ----------
\* Thread.is_alive()
commAlive == commPc # "off"

ncsAlive == ncsPc # "off"

\* App.stopEvent.set() / .clear(): App.stopEvent is the Event created by the
\* latest successful start(), whichever loop that started.
StopEventSet ==
    /\ commStop' = IF stopRef = "comm" THEN TRUE ELSE commStop
    /\ ncsStop' = IF stopRef = "ncs" THEN TRUE ELSE ncsStop

StopEventClear ==
    /\ commStop' = IF stopRef = "comm" THEN FALSE ELSE commStop
    /\ ncsStop' = IF stopRef = "ncs" THEN FALSE ELSE ncsStop

\* start() lines 242-244 for startComm: whether an open() raises SerialError.
\* serial.Serial.open() raises on a port that is already open; `fails` is
\* the port whose open() fails for an outside reason.
CommOpenFails(fails) == appOpen \/ fails = "app" \/ devOpen \/ fails = "dev"

\* start() with a failed open leaving the ports as the open() calls left them.
StartCommNoCleanup(fails, after) ==
    /\ fails \in {"none", "app", "dev"}
    /\ IF commThread
       THEN /\ fails = "none"
            /\ status' = <<"startComm", "None">>
            /\ cmdNotified' = after
            /\ UNCHANGED <<appOpen, devOpen, stopRef, commStop, commThread,
                           commPc, nCommStopped, ioAfterStop, commIo,
                           commAdapter>>
       ELSE IF device = 0
       THEN /\ fails = "none"
            /\ status' = <<"startComm", "ApplicationError">>
            /\ cmdNotified' = after
            /\ UNCHANGED <<appOpen, devOpen, stopRef, commStop, commThread,
                           commPc, nCommStopped, ioAfterStop, commIo,
                           commAdapter>>
       ELSE IF CommOpenFails(fails)
       THEN /\ appOpen' = (appOpen \/ fails = "dev")
            /\ devOpen' = devOpen
            /\ cmdNotified' = <<"comm dropped">> \o after
            /\ status' = <<"startComm", "False">>
            /\ UNCHANGED <<stopRef, commStop, commThread, commPc,
                           nCommStopped, ioAfterStop, commIo, commAdapter>>
       ELSE /\ appOpen' = TRUE
            /\ devOpen' = TRUE
            /\ stopRef' = "comm"
            /\ commStop' = FALSE
            /\ commThread' = TRUE
            /\ commPc' = "begin"
            /\ nCommStopped' = 0
            /\ ioAfterStop' = 0
            /\ commIo' = <<>>
            /\ commAdapter' = 0
            /\ status' = <<"startComm", "True">>
            /\ cmdNotified' = after

\* startComm -> start(name='commThread', openApp=True, openDev=True):
\* what it does to the ports, the Event, the thread and the return value.
\* `after` are the events the caller notifies once start() has returned.
StartCommBody(fails, after) ==
    /\ fails \in {"none", "app", "dev"}
    /\ IF commThread
       THEN /\ fails = "none"
            /\ status' = <<"startComm", "None">>
            /\ cmdNotified' = after
            /\ UNCHANGED <<appOpen, devOpen, stopRef, commStop, commThread,
                           commPc, nCommStopped, ioAfterStop, commIo,
                           commAdapter>>
       ELSE IF device = 0
       THEN /\ fails = "none"
            /\ status' = <<"startComm", "ApplicationError">>
            /\ cmdNotified' = after
            /\ UNCHANGED <<appOpen, devOpen, stopRef, commStop, commThread,
                           commPc, nCommStopped, ioAfterStop, commIo,
                           commAdapter>>
       ELSE IF CommOpenFails(fails)
       THEN /\ appOpen' = FALSE
            /\ devOpen' = FALSE
            /\ cmdNotified' = <<"comm dropped">> \o after
            /\ status' = <<"startComm", "False">>
            /\ UNCHANGED <<stopRef, commStop, commThread, commPc,
                           nCommStopped, ioAfterStop, commIo, commAdapter>>
       ELSE /\ appOpen' = TRUE
            /\ devOpen' = TRUE
            /\ stopRef' = "comm"
            /\ commStop' = FALSE
            /\ commThread' = TRUE
            /\ commPc' = "begin"
            /\ nCommStopped' = 0
            /\ ioAfterStop' = 0
            /\ commIo' = <<>>
            /\ commAdapter' = 0
            /\ status' = <<"startComm", "True">>
            /\ cmdNotified' = after

\* App.startComm (lines 281-287)
StartComm(fails) ==
    /\ cmdPc = "idle"
    /\ calls < MaxCalls
    /\ calls' = calls + 1
    /\ StartCommBody(fails, <<>>)
    /\ UNCHANGED <<parVars, wireVars, txVars, sumVars, ackVars, natVars,
                   sonyVars, fcbVars, stpVars, scanVars, notifyVars,
                   shareVars, delayVars, device, lock, POWER, ncsThread,
                   ncsStop, commRunning, nativeSoftConnEstablished,
                   interactWithNativeSoft, appTimeouts, devTimeouts,
                   nativeData, deviceData, ncsPc, ncsLock, ncsState, cmdPc,
                   commNotified>>

\* App.enableSmart (lines 294-300) ->
\* start(name='ncsThread', openApp=True, openDev=False)
EnableSmart(fails) ==
    /\ cmdPc = "idle"
    /\ calls < MaxCalls
    /\ calls' = calls + 1
    /\ fails \in BOOLEAN
    /\ IF ncsThread
       THEN /\ fails = FALSE
            /\ status' = <<"enableSmart", "None">>
            /\ UNCHANGED <<appOpen, stopRef, ncsStop, ncsThread, ncsPc>>
       ELSE IF device = 0
       THEN /\ fails = FALSE
            /\ status' = <<"enableSmart", "ApplicationError">>
            /\ UNCHANGED <<appOpen, stopRef, ncsStop, ncsThread, ncsPc>>
       ELSE IF appOpen \/ fails
       THEN /\ appOpen' = FALSE
            /\ status' = <<"enableSmart", "False">>
            /\ UNCHANGED <<stopRef, ncsStop, ncsThread, ncsPc>>
       ELSE /\ appOpen' = TRUE
            /\ stopRef' = "ncs"
            /\ ncsStop' = FALSE
            /\ ncsThread' = TRUE
            /\ ncsPc' = "begin"
            /\ status' = <<"enableSmart", "True">>
    /\ cmdNotified' = <<>>
    /\ UNCHANGED <<parVars, wireVars, txVars, sumVars, ackVars, natVars,
                   sonyVars, fcbVars, stpVars, scanVars, notifyVars,
                   shareVars, delayVars, device, lock, POWER, devOpen,
                   commThread, commStop, commRunning,
                   nativeSoftConnEstablished, interactWithNativeSoft,
                   appTimeouts, devTimeouts, nativeData, deviceData, commPc,
                   ncsLock, ncsState, cmdPc, commNotified, nCommStopped,
                   ioAfterStop, commIo, commAdapter>>

\* App.stopComm -> stop(name='commThread') up to thread.join() (lines 269-275)
StopComm ==
    /\ cmdPc = "idle"
    /\ calls < MaxCalls
    /\ calls' = calls + 1
    /\ cmdNotified' = <<>>
    /\ IF ~commThread
       THEN /\ status' = <<"stopComm", "None">>
            /\ UNCHANGED <<commStop, ncsStop, cmdPc>>
       ELSE /\ IF commAlive THEN StopEventSet ELSE UNCHANGED <<commStop, ncsStop>>
            /\ cmdPc' = "joinComm"
            /\ status' = <<"stopComm", "-">>
    /\ UNCHANGED <<parVars, wireVars, txVars, sumVars, ackVars, natVars,
                   sonyVars, fcbVars, stpVars, scanVars, notifyVars,
                   shareVars, delayVars, device, lock, POWER, appOpen,
                   devOpen, commThread, ncsThread, stopRef, commRunning,
                   nativeSoftConnEstablished, interactWithNativeSoft,
                   appTimeouts, devTimeouts, nativeData, deviceData, commPc,
                   ncsPc, ncsLock, ncsState, commNotified, nCommStopped,
                   ioAfterStop, commIo, commAdapter>>

\* stop() lines 276-279 and stopComm line 291: join returns once the
\* thread has ended.
StopCommJoined ==
    /\ cmdPc = "joinComm"
    /\ ~commAlive
    /\ StopEventClear
    /\ commThread' = FALSE
    /\ status' = <<"stopComm", "False">>
    /\ cmdPc' = "idle"
    /\ UNCHANGED <<parVars, wireVars, txVars, sumVars, ackVars, natVars,
                   sonyVars, fcbVars, stpVars, scanVars, notifyVars,
                   shareVars, delayVars, device, lock, POWER, appOpen,
                   devOpen, ncsThread, stopRef, commRunning,
                   nativeSoftConnEstablished, interactWithNativeSoft,
                   appTimeouts, devTimeouts, nativeData, deviceData, commPc,
                   ncsPc, ncsLock, ncsState, calls, commNotified,
                   cmdNotified, nCommStopped, ioAfterStop, commIo,
                   commAdapter>>

\* App.disableSmart -> stop(name='ncsThread') up to thread.join()
DisableSmart ==
    /\ cmdPc = "idle"
    /\ calls < MaxCalls
    /\ calls' = calls + 1
    /\ cmdNotified' = <<>>
    /\ IF ~ncsThread
       THEN /\ status' = <<"disableSmart", "None">>
            /\ UNCHANGED <<commStop, ncsStop, cmdPc>>
       ELSE /\ IF ncsAlive THEN StopEventSet ELSE UNCHANGED <<commStop, ncsStop>>
            /\ cmdPc' = "joinNcs"
            /\ status' = <<"disableSmart", "-">>
    /\ UNCHANGED <<parVars, wireVars, txVars, sumVars, ackVars, natVars,
                   sonyVars, fcbVars, stpVars, scanVars, notifyVars,
                   shareVars, delayVars, device, lock, POWER, appOpen,
                   devOpen, commThread, ncsThread, stopRef, commRunning,
                   nativeSoftConnEstablished, interactWithNativeSoft,
                   appTimeouts, devTimeouts, nativeData, deviceData, commPc,
                   ncsPc, ncsLock, ncsState, commNotified, nCommStopped,
                   ioAfterStop, commIo, commAdapter>>

\* stop() lines 276-279 and disableSmart line 304
DisableSmartJoined ==
    /\ cmdPc = "joinNcs"
    /\ ~ncsAlive
    /\ StopEventClear
    /\ ncsThread' = FALSE
    /\ status' = <<"disableSmart", "False">>
    /\ cmdPc' = "idle"
    /\ UNCHANGED <<parVars, wireVars, txVars, sumVars, ackVars, natVars,
                   sonyVars, fcbVars, stpVars, scanVars, notifyVars,
                   shareVars, delayVars, device, lock, POWER, appOpen,
                   devOpen, commThread, stopRef, commRunning,
                   nativeSoftConnEstablished, interactWithNativeSoft,
                   appTimeouts, devTimeouts, nativeData, deviceData, commPc,
                   ncsPc, ncsLock, ncsState, calls, commNotified,
                   cmdNotified, nCommStopped, ioAfterStop, commIo,
                   commAdapter>>

\* The external mutation of a Parameter: runCmd 'd' (line 794) and the control
\* panel (entry.py line 161) call Par.set directly, taking no lock.
SetPar(newValue) ==
    /\ cmdPc = "idle"
    /\ calls < MaxCalls
    /\ calls' = calls + 1
    /\ device # 0
    /\ newValue \in BOOLEAN
    /\ POWER' = ParSet(POWER, newValue).par
    /\ cmdNotified' = ParSet(POWER, newValue).emitted
    /\ status' = <<"set", "-">>
    /\ UNCHANGED <<parVars, wireVars, txVars, sumVars, ackVars, natVars,
                   sonyVars, fcbVars, stpVars, scanVars, notifyVars,
                   shareVars, delayVars, device, lock, appOpen, devOpen,
                   commThread, ncsThread, stopRef, commStop, ncsStop,
                   commRunning, nativeSoftConnEstablished,
                   interactWithNativeSoft, appTimeouts, devTimeouts,
                   nativeData, deviceData, commPc, ncsPc, ncsLock, ncsState,
                   cmdPc, commNotified, nCommStopped, ioAfterStop, commIo,
                   commAdapter>>

\* runCmd 'n' (lines 742-745)
ToggleNative ==
    /\ cmdPc = "idle"
    /\ calls < MaxCalls
    /\ calls' = calls + 1
    /\ device # 0
    /\ interactWithNativeSoft' = ~interactWithNativeSoft
    /\ cmdNotified' = <<>>
    /\ status' = <<"toggleNative", "-">>
    /\ UNCHANGED <<parVars, wireVars, txVars, sumVars, ackVars, natVars,
                   sonyVars, fcbVars, stpVars, scanVars, notifyVars,
                   shareVars, delayVars, device, lock, POWER, appOpen,
                   devOpen, commThread, ncsThread, stopRef, commStop,
                   ncsStop, commRunning, nativeSoftConnEstablished,
                   appTimeouts, devTimeouts, nativeData, deviceData, commPc,
                   ncsPc, ncsLock, ncsState, cmdPc, commNotified,
                   nCommStopped, ioAfterStop, commIo, commAdapter>>

\* App.setProtocol line 220 (and 221): the new adapter becomes the active
\* one before anything is stopped.
SetProtocol ==
    /\ cmdPc = "idle"
    /\ calls < MaxCalls
    /\ calls' = calls + 1
    /\ device < MaxDevices
    /\ device' = device + 1
    /\ cmdPc' = "spLock"
    /\ cmdNotified' = <<>>
    /\ status' = <<"setProtocol", "-">>
    /\ UNCHANGED <<parVars, wireVars, txVars, sumVars, ackVars, natVars,
                   sonyVars, fcbVars, stpVars, scanVars, notifyVars,
                   shareVars, delayVars, lock, POWER, appOpen, devOpen,
                   commThread, ncsThread, stopRef, commStop, ncsStop,
                   commRunning, nativeSoftConnEstablished,
                   interactWithNativeSoft, appTimeouts, devTimeouts,
                   nativeData, deviceData, commPc, ncsPc, ncsLock, ncsState,
                   commNotified, nCommStopped, ioAfterStop, commIo,
                   commAdapter>>

\* setProtocol line 222: "with self.device.lock" (the new adapter's lock)
SetProtocolLock ==
    /\ cmdPc = "spLock"
    /\ lock[device] = "none"
    /\ lock' = [lock EXCEPT ![device] = "cmd"]
    /\ cmdPc' = "spRestart"
    /\ UNCHANGED <<parVars, wireVars, txVars, sumVars, ackVars, natVars,
                   sonyVars, fcbVars, stpVars, scanVars, notifyVars,
                   shareVars, delayVars, device, POWER, appOpen, devOpen,
                   commThread, ncsThread, stopRef, commStop, ncsStop,
                   commRunning, nativeSoftConnEstablished,
                   interactWithNativeSoft, appTimeouts, devTimeouts,
                   nativeData, deviceData, commPc, ncsPc, ncsLock, ncsState,
                   status, calls, commNotified, cmdNotified, nCommStopped,
                   ioAfterStop, commIo, commAdapter>>

\* restartNeeded lines 196-199: stopComm() up to thread.join() when
\* commRunning is set
RestartNeeded ==
    /\ cmdPc = "spRestart"
    /\ IF ~commRunning
       THEN /\ cmdPc' = "spConfig"
            /\ UNCHANGED <<commStop, ncsStop, status>>
       ELSE IF ~commThread
       THEN /\ cmdPc' = "spConfigRestart"
            /\ status' = <<"stopComm", "None">>
            /\ UNCHANGED <<commStop, ncsStop>>
       ELSE /\ IF commAlive THEN StopEventSet ELSE UNCHANGED <<commStop, ncsStop>>
            /\ cmdPc' = "spJoin"
            /\ status' = <<"stopComm", "-">>
    /\ UNCHANGED <<parVars, wireVars, txVars, sumVars, ackVars, natVars,
                   sonyVars, fcbVars, stpVars, scanVars, notifyVars,
                   shareVars, delayVars, device, lock, POWER, appOpen,
                   devOpen, commThread, ncsThread, stopRef, commRunning,
                   nativeSoftConnEstablished, interactWithNativeSoft,
                   appTimeouts, devTimeouts, nativeData, deviceData, commPc,
                   ncsPc, ncsLock, ncsState, calls, commNotified,
                   cmdNotified, nCommStopped, ioAfterStop, commIo,
                   commAdapter>>

\* restartNeeded line 199, the rest of stopComm(): join, clear, commThread = None
RestartJoined ==
    /\ cmdPc = "spJoin"
    /\ ~commAlive
    /\ StopEventClear
    /\ commThread' = FALSE
    /\ status' = <<"stopComm", "False">>
    /\ cmdPc' = "spConfigRestart"
    /\ UNCHANGED <<parVars, wireVars, txVars, sumVars, ackVars, natVars,
                   sonyVars, fcbVars, stpVars, scanVars, notifyVars,
                   shareVars, delayVars, device, lock, POWER, appOpen,
                   devOpen, ncsThread, stopRef, commRunning,
                   nativeSoftConnEstablished, interactWithNativeSoft,
                   appTimeouts, devTimeouts, nativeData, deviceData, commPc,
                   ncsPc, ncsLock, ncsState, calls, commNotified,
                   cmdNotified, nCommStopped, ioAfterStop, commIo,
                   commAdapter>>

\* setProtocol line 223: configureInterface(appInt, devInt) sets the ports'
\* baud rate, parity, timeouts and device address; lines 222-224 end the call
\* when no restart is due.
ConfigureInterface ==
    /\ cmdPc \in {"spConfig", "spConfigRestart"}
    /\ IF cmdPc = "spConfig"
       THEN /\ lock' = [lock EXCEPT ![device] = "none"]
            /\ cmdNotified' = <<"protocol changed">>
            /\ cmdPc' = "idle"
       ELSE /\ cmdPc' = "spStart"
            /\ UNCHANGED <<lock, cmdNotified>>
    /\ UNCHANGED <<parVars, wireVars, txVars, sumVars, ackVars, natVars,
                   sonyVars, fcbVars, stpVars, scanVars, notifyVars,
                   shareVars, delayVars, device, POWER, appOpen, devOpen,
                   commThread, ncsThread, stopRef, commStop, ncsStop,
                   commRunning, nativeSoftConnEstablished,
                   interactWithNativeSoft, appTimeouts, devTimeouts,
                   nativeData, deviceData, commPc, ncsPc, ncsLock, ncsState,
                   status, calls, commNotified, nCommStopped, ioAfterStop,
                   commIo, commAdapter>>

\* restartNeeded line 201: startComm(); then setProtocol lines 222-224
RestartStart(fails) ==
    /\ cmdPc = "spStart"
    /\ StartCommBody(fails, <<"protocol changed">>)
    /\ lock' = [lock EXCEPT ![device] = "none"]
    /\ cmdPc' = "idle"
    /\ UNCHANGED <<parVars, wireVars, txVars, sumVars, ackVars, natVars,
                   sonyVars, fcbVars, stpVars, scanVars, notifyVars,
                   shareVars, delayVars, device, POWER, ncsThread, ncsStop,
                   commRunning, nativeSoftConnEstablished,
                   interactWithNativeSoft, appTimeouts, devTimeouts,
                   nativeData, deviceData, ncsPc, ncsLock, ncsState, calls,
                   commNotified>>

CmdStep ==
    \/ \E fails \in {"none", "app", "dev"} : StartComm(fails)
    \/ StopComm
    \/ StopCommJoined
    \/ \E newValue \in BOOLEAN : SetPar(newValue)
    \/ ToggleNative
    \/ SetProtocol
    \/ SetProtocolLock
    \/ RestartNeeded
    \/ RestartJoined
    \/ ConfigureInterface
    \/ \E fails \in {"none", "app", "dev"} : RestartStart(fails)

SmartCmdStep ==
    \/ \E fails \in BOOLEAN : EnableSmart(fails)
    \/ DisableSmart
    \/ DisableSmartJoined

\* ------------------------------------------ Parameter specification -----

\* Par.ack(obtainedValue) on the Parameter under test
ParAckOp(obtainedValue) ==
    /\ obtainedValue \in ParValues
    /\ parBefore' = par
    /\ par' = ParAck(par, obtainedValue).par
    /\ parEmitted' = ParAck(par, obtainedValue).emitted
    /\ parOp' = <<"ack", obtainedValue>>
    /\ UNCHANGED <<orchVars, wireVars, txVars, sumVars, ackVars, natVars,
                   sonyVars, fcbVars, stpVars, scanVars, notifyVars,
                   shareVars, delayVars>>

\* Par.set(newValue) on the Parameter under test
ParSetOp(newValue) ==
    /\ newValue \in ParValues
    /\ parBefore' = par
    /\ par' = ParSet(par, newValue).par
    /\ parEmitted' = ParSet(par, newValue).emitted
    /\ parOp' = <<"set", newValue>>
    /\ UNCHANGED <<orchVars, wireVars, txVars, sumVars, ackVars, natVars,
                   sonyVars, fcbVars, stpVars, scanVars, notifyVars,
                   shareVars, delayVars>>

ParNext ==
    \/ \E obtainedValue \in ParValues : ParAckOp(obtainedValue)
    \/ \E newValue \in ParValues : ParSetOp(newValue)

\* ------------------------------------------- PelengTransceiver (wire) ---
\* PelengTransceiver.HEADER_LEN, STARTBYTE
HEADER_LEN == 6

STARTBYTE == 90

\* SONY.DEV_ADDRESS, which Device.configureInterface stores in
\* devInterface.deviceAddress
DEV_ADDRESS == 12

\* receivePacket: "for i in range(1, 100)"
RESYNC_ATTEMPTS == 99

\* sendPacket: "assert (datalen <= 0xFFF)"
MAX_DATALEN == 4095

\* __parseHeader: "fields[2] & 0x0FFF", the 12-bit size field (16-bit words)
LEN_MASK == 4095

\* bytes[:n] and bytes[n:]
take(b, n) == SubSeq(b, 1, IF n < Len(b) THEN n ELSE Len(b))

drop(b, n) == SubSeq(b, (IF n < Len(b) THEN n ELSE Len(b)) + 1, Len(b))

\* The i-th big-endian 16-bit word of a byte string; an odd-length string
\* is padded with one zero byte.
word(b, i) == b[2 * i - 1] * 256 + (IF 2 * i <= Len(b) THEN b[2 * i] ELSE 0)

\* Ones'-complement addition: 16-bit addition with end-around carry.
onesAdd(x, y) == ((x + y) % 65536) + ((x + y) \div 65536)

\* The ones'-complement sum of the words lo .. hi of b.  The sum is taken
\* over halves: end-around-carry addition is associative and commutative,
\* so the result is that of the left-to-right sum.
RECURSIVE wordSum(_, _, _)
wordSum(b, lo, hi) ==
    IF lo > hi THEN 0
    ELSE IF lo = hi THEN word(b, lo)
    ELSE LET mid == (lo + hi) \div 2
         IN  onesAdd(wordSum(b, lo, mid), wordSum(b, mid + 1, hi))

\* checksums.rfc1071 that returns the sum itself, not its complement.
rfc1071NoComplement(b) ==
    LET c == wordSum(b, 1, (Len(b) + 1) \div 2)
    IN  <<c \div 256, c % 256>>

\* checksums.rfc1071: the one's complement of the ones'-complement sum of
\* the big-endian 16-bit words, as two bytes, high byte first.
rfc1071(b) ==
    LET c == 65535 - wordSum(b, 1, (Len(b) + 1) \div 2)
    IN  <<c \div 256, c % 256>>

\* int.from_bytes(rfc1071(b), byteorder='big') == 0
sumOk(b) == rfc1071(b) = <<0, 0>>

\* sendPacket that appends no pad byte to a payload of odd length.
packetNoPad(msg) ==
    LET datalen  == Len(msg)
        size     == (datalen \div 2) + 32768 * (datalen % 2)
        header   == <<STARTBYTE, DEV_ADDRESS, size % 256, size \div 256>>
        body     == header \o rfc1071(header) \o msg
    IN  body \o rfc1071(body)

\* sendPacket lines 264-269: the bytes written for an accepted payload.
\* struct '< B B H': the size field is little-endian.
packet(msg) ==
    LET zerobyte == IF Len(msg) % 2 = 1 THEN <<0>> ELSE <<>>
        datalen  == Len(msg) + Len(zerobyte)
        size     == (datalen \div 2) + 32768 * Len(zerobyte)
        header   == <<STARTBYTE, DEV_ADDRESS, size % 256, size \div 256>>
        body     == header \o rfc1071(header) \o msg \o zerobyte
    IN  body \o rfc1071(body)

\* sendPacket: the assertion on the payload length, then the bytes written.
sendPacket(msg) ==
    IF Len(msg) <= MAX_DATALEN
    THEN [result |-> "ok", bytes |-> packet(msg)]
    ELSE [result |-> "AssertionError", bytes |-> <<>>]

\* __parseHeader: the payload size in bytes and the pad flag (bit 15).  An
\* address other than masterAddress is only logged.
parseHeader(header) ==
    LET size == header[3] + 256 * header[4]
    IN  [datalen |-> (size % (LEN_MASK + 1)) * 2, zerobyte |-> size \div 32768]

\* The outcome of a receivePacket call: the exception raised or "ok", the
\* payload returned, and the bytes left in the input buffer.
Received(result, data, rest) == [result |-> result, data |-> data, rest |-> rest]

\* __readData that takes the size field for a number of bytes.
readDataBytes(header, buf) ==
    IF Len(header) # HEADER_LEN
    THEN Received("AssertionError", <<>>, buf)
    ELSE LET p    == parseHeader(header)
             need == (p.datalen \div 2) + 2
             data == take(buf, need)
             rest == drop(buf, need)
         IN  IF Len(data) = 0 THEN Received("SerialReadTimeoutError", <<>>, rest)
             ELSE IF Len(data) < need THEN Received("BadDataError", <<>>, rest)
             ELSE IF sumOk(header \o data)
                  THEN Received("ok", SubSeq(data, 1, Len(data) - 2 - p.zerobyte), rest)
                  ELSE Received("BadRfcError", <<>>, rest)

\* __readData that does not look at the packet checksum.
readDataUnchecked(header, buf) ==
    IF Len(header) # HEADER_LEN
    THEN Received("AssertionError", <<>>, buf)
    ELSE LET p    == parseHeader(header)
             need == p.datalen + 2
             data == take(buf, need)
             rest == drop(buf, need)
         IN  IF Len(data) = 0 THEN Received("SerialReadTimeoutError", <<>>, rest)
             ELSE IF Len(data) < need THEN Received("BadDataError", <<>>, rest)
             ELSE Received("ok", SubSeq(data, 1, Len(data) - 2 - p.zerobyte), rest)

\* __readData with FLUSH_UNREAD_DATA set: the input buffer is reset after a
\* packet has been read.
readDataFlushing(header, buf) ==
    IF Len(header) # HEADER_LEN
    THEN Received("AssertionError", <<>>, buf)
    ELSE LET p    == parseHeader(header)
             need == p.datalen + 2
             data == take(buf, need)
             rest == drop(buf, need)
         IN  IF Len(data) = 0 THEN Received("SerialReadTimeoutError", <<>>, rest)
             ELSE IF Len(data) < need THEN Received("BadDataError", <<>>, rest)
             ELSE IF sumOk(header \o data)
                  THEN Received("ok", SubSeq(data, 1, Len(data) - 2 - p.zerobyte), <<>>)
                  ELSE Received("BadRfcError", <<>>, rest)

\* __readData: reads the declared payload and the packet checksum with
\* read(), which raises on a short read; __parseHeader asserts the header
\* length first.
readData(header, buf) ==
    IF Len(header) # HEADER_LEN
    THEN Received("AssertionError", <<>>, buf)
    ELSE LET p    == parseHeader(header)
             need == p.datalen + 2
             data == take(buf, need)
             rest == drop(buf, need)
         IN  IF Len(data) = 0 THEN Received("SerialReadTimeoutError", <<>>, rest)
             ELSE IF Len(data) < need THEN Received("BadDataError", <<>>, rest)
             ELSE IF sumOk(header \o data)
                  THEN Received("ok", SubSeq(data, 1, Len(data) - 2 - p.zerobyte), rest)
                  ELSE Received("BadRfcError", <<>>, rest)

\* bytes.find(STARTBYTE): the 0-based index of the first start byte, or -1.
find(b) ==
    IF \E i \in 1 .. Len(b) : b[i] = STARTBYTE
    THEN (CHOOSE i \in 1 .. Len(b) :
              b[i] = STARTBYTE /\ \A j \in 1 .. i - 1 : b[j] # STARTBYTE) - 1
    ELSE -1

\* The "while True" loop of receivePacket (lines 195-203): portions of
\* HEADER_LEN bytes are read until one holds a start byte (found) or a
\* portion without one is short (BadDataError).  The portion the loop stops
\* at is the first such portion of the buffer.
seekStartbyte(b, buf) ==
    IF find(b) # -1 THEN [found |-> TRUE, b |-> b, rest |-> buf]
    ELSE IF Len(b) < HEADER_LEN THEN [found |-> FALSE, b |-> b, rest |-> buf]
    ELSE LET portion(j) == SubSeq(buf, HEADER_LEN * j + 1,
                                  IF HEADER_LEN * (j + 1) < Len(buf)
                                  THEN HEADER_LEN * (j + 1) ELSE Len(buf))
             stops(j)   == find(portion(j)) # -1 \/ Len(portion(j)) < HEADER_LEN
             last       == CHOOSE j \in 0 .. Len(buf) \div HEADER_LEN :
                              stops(j) /\ \A k \in 0 .. j - 1 : ~stops(k)
         IN  [found |-> find(portion(last)) # -1,
              b     |-> portion(last),
              rest  |-> drop(buf, HEADER_LEN * last + Len(portion(last)))]

\* The "for i in range(1, 100)" loop of receivePacket (lines 194-213).
RECURSIVE resync(_, _, _)
resync(b, buf, i) ==
    IF i > RESYNC_ATTEMPTS
    THEN Received("SerialCommunicationError", <<>>, buf)
    ELSE LET s == seekStartbyte(b, buf)
         IN  IF ~s.found THEN Received("BadDataError", <<>>, s.rest)
             ELSE LET startbyteIndex == find(s.b)
                      headerReminder == take(s.rest, startbyteIndex)
                      rest           == drop(s.rest, startbyteIndex)
                      header         == drop(s.b, startbyteIndex) \o headerReminder
                  IN  IF Len(headerReminder) < startbyteIndex
                      THEN Received("BadDataError", <<>>, rest)
                      ELSE IF sumOk(header) THEN readData(header, rest)
                      ELSE resync(take(rest, HEADER_LEN), drop(rest, HEADER_LEN), i + 1)

\* receivePacket on an input buffer holding buf (every byte that will
\* arrive before the read timeout).
receivePacket(buf) ==
    LET bytesReceived == take(buf, HEADER_LEN)
        rest          == drop(buf, HEADER_LEN)
    IN  IF Len(bytesReceived) = 0 THEN Received("SerialReadTimeoutError", <<>>, rest)
        ELSE IF Len(bytesReceived) < HEADER_LEN THEN Received("BadDataError", <<>>, rest)
        ELSE IF bytesReceived[1] = STARTBYTE /\ sumOk(bytesReceived)
             THEN readData(bytesReceived, rest)
             ELSE resync(bytesReceived, rest, 1)

\* ------------------------------------------------- wire specification ---
\* Byte values the payloads and the line noise are made of: a payload of
\* start bytes is the one a scan for the start byte can go wrong on.
PayloadBytes == {STARTBYTE}

GarbageBytes == {0, STARTBYTE}

\* All byte strings of length lo .. hi over a set of byte values.
Strings(S, lo, hi) == UNION {[1 .. n -> S] : n \in lo .. hi}

\* The payloads given to sendPacket.
Payloads == Strings(PayloadBytes, 0, MaxPayloadLen)

\* One entry of the history: the call or line event, its argument or the
\* payload it returned, its outcome, the bytes it wrote to or took from the
\* input buffer, and the number of bytes that were waiting before it.
WireOp(op, data, result, bytes) ==
    [op |-> op, data |-> data, result |-> result, bytes |-> bytes,
     before |-> Len(rxBuf)]

Sends == {i \in DOMAIN wireOps : wireOps[i].op = "send"}

\* A byte with bit number bit inverted.
flipBit(byte, bit) ==
    IF (byte \div (2 ^ bit)) % 2 = 1 THEN byte - 2 ^ bit ELSE byte + 2 ^ bit

\* sendPacket(msg) on a transceiver whose output is looped back to its
\* input; every packet is written before the first one is read.
WireSend(msg) ==
    /\ Cardinality(Sends) < MaxPackets
    /\ \A i \in DOMAIN wireOps : wireOps[i].op # "recv"
    /\ msg \in Payloads
    /\ rxBuf' = rxBuf \o sendPacket(msg).bytes
    /\ wireOps' = Append(wireOps, WireOp("send", msg, sendPacket(msg).result,
                                          sendPacket(msg).bytes))
    /\ UNCHANGED <<orchVars, parVars, txVars, sumVars, ackVars, natVars,
                   sonyVars, fcbVars, stpVars, scanVars, notifyVars,
                   shareVars, delayVars>>

\* Line noise: garbage bytes arrive before anything else.
WireNoise(garbage) ==
    /\ wireOps = <<>>
    /\ garbage \in Strings(GarbageBytes, 1, MaxGarbageLen)
    /\ rxBuf' = rxBuf \o garbage
    /\ wireOps' = Append(wireOps, WireOp("noise", garbage, "ok", garbage))
    /\ UNCHANGED <<orchVars, parVars, txVars, sumVars, ackVars, natVars,
                   sonyVars, fcbVars, stpVars, scanVars, notifyVars,
                   shareVars, delayVars>>

\* One bit of the packet just written is inverted in transit, on a line
\* without noise: pos counts the bytes after the header (payload, pad
\* byte, packet checksum).
WireFlip(pos, bit) ==
    /\ wireOps # <<>>
    /\ wireOps[Len(wireOps)].op = "send"
    /\ wireOps[Len(wireOps)].result = "ok"
    /\ \A i \in DOMAIN wireOps : wireOps[i].op \notin {"flip", "noise"}
    /\ pos \in 1 .. MaxPayloadLen + 3
    /\ bit \in 0 .. 7
    /\ LET sent == wireOps[Len(wireOps)].bytes
           at   == Len(rxBuf) - Len(sent) + HEADER_LEN + pos
       IN  /\ HEADER_LEN + pos <= Len(sent)
           /\ rxBuf' = [rxBuf EXCEPT ![at] = flipBit(rxBuf[at], bit)]
    /\ wireOps' = Append(wireOps, WireOp("flip", <<pos, bit>>, "ok", <<>>))
    /\ UNCHANGED <<orchVars, parVars, txVars, sumVars, ackVars, natVars,
                   sonyVars, fcbVars, stpVars, scanVars, notifyVars,
                   shareVars, delayVars>>

\* receivePacket() while bytes are waiting.
WireReceive ==
    /\ rxBuf # <<>>
    /\ LET r == receivePacket(rxBuf)
       IN  /\ rxBuf' = r.rest
           /\ wireOps' = Append(wireOps,
                  WireOp("recv", r.data, r.result,
                         take(rxBuf, Len(rxBuf) - Len(r.rest))))
    /\ UNCHANGED <<orchVars, parVars, txVars, sumVars, ackVars, natVars,
                   sonyVars, fcbVars, stpVars, scanVars, notifyVars,
                   shareVars, delayVars>>

WireNext ==
    \/ \E msg \in Payloads : WireSend(msg)
    \/ \E garbage \in Strings(GarbageBytes, 1, MaxGarbageLen) : WireNoise(garbage)
    \/ \E pos \in 1 .. MaxPayloadLen + 3, bit \in 0 .. 7 : WireFlip(pos, bit)
    \/ WireReceive

\* ------------------------------------------------- send specification ---
\* Payload lengths from 0 on and around the two length limits: that of the
\* assertion in sendPacket and that of the 12-bit size field.
TxLengths ==
    (0 .. MaxLenMargin)
    \cup (MAX_DATALEN - MaxLenMargin .. MAX_DATALEN + MaxLenMargin)
    \cup (2 * LEN_MASK - MaxLenMargin .. 2 * LEN_MASK + MaxLenMargin)

\* The byte a payload of the send specification is filled with.
FillBytes == {0, STARTBYTE}

\* The one sendPacket call of a run, on a payload of n bytes fill.
TxSend(n, fill) ==
    /\ txResult = "none"
    /\ n \in TxLengths
    /\ fill \in FillBytes
    /\ txMsg' = [i \in 1 .. n |-> fill]
    /\ txResult' = sendPacket([i \in 1 .. n |-> fill]).result
    /\ txLine' = sendPacket([i \in 1 .. n |-> fill]).bytes
    /\ UNCHANGED <<orchVars, parVars, wireVars, sumVars, ackVars, natVars,
                   sonyVars, fcbVars, stpVars, scanVars, notifyVars,
                   shareVars, delayVars, txEcho>>

\* receivePacket() on the bytes sendPacket wrote.
TxReceive ==
    /\ txResult = "ok"
    /\ txEcho.result = "none"
    /\ txEcho' = receivePacket(txLine)
    /\ txLine' = receivePacket(txLine).rest
    /\ UNCHANGED <<orchVars, parVars, wireVars, sumVars, ackVars, natVars,
                   sonyVars, fcbVars, stpVars, scanVars, notifyVars,
                   shareVars, delayVars, txMsg, txResult>>

TxNext ==
    \/ \E n \in TxLengths, fill \in FillBytes : TxSend(n, fill)
    \/ TxReceive

\* --------------------------------------------- checksum specification ---
SumBytes == {0, 1, STARTBYTE, 255}

\* One more byte is appended to d; the sender computes rfc1071(d) and
\* writes d + rfc1071(d) (MWXC.sendNative), the receiver computes rfc1071
\* of what it got (MWXC.receiveNative).
SumFeed(byte) ==
    /\ Len(sumData) < MaxSumLen
    /\ byte \in SumBytes
    /\ sumData' = Append(sumData, byte)
    /\ sumOut' = rfc1071(Append(sumData, byte))
    /\ sumCheck' = rfc1071(Append(sumData, byte) \o rfc1071(Append(sumData, byte)))
    /\ UNCHANGED <<orchVars, parVars, wireVars, txVars, ackVars, natVars,
                   sonyVars, fcbVars, stpVars, scanVars, notifyVars,
                   shareVars, delayVars>>

SumNext == \E byte \in SumBytes : SumFeed(byte)

\* An idle line: nothing sent, nothing received.
WireInit ==
    /\ rxBuf = <<>>
    /\ wireOps = <<>>

\* The empty byte string.
SumInit ==
    /\ sumData = <<>>
    /\ sumOut = rfc1071(<<>>)
    /\ sumCheck = rfc1071(rfc1071(<<>>))

\* Nothing sent yet.
TxInit ==
    /\ txMsg = <<>>
    /\ txResult = "none"
    /\ txLine = <<>>
    /\ txEcho = Received("none", <<>>, <<>>)

\* ------------------------------------------- App.ackTransaction ---------
\* ackTransaction(limit=1000): the attempt cap.
ACK_LIMIT == 1000

\* The Parameters of the adapter (two of SONY's four).
AckParams == {"POWER", "RESET"}

\* What one transaction(closePort=False) can come to:
\*   openfail  : devInt.open() raised SerialError         -> returns False
\*   wtimeout  : sendPacket raised SerialWriteTimeoutError -> returns False
\*   wfatal    : sendPacket raised another SerialError, which leaves
\*               transaction() and ackTransaction() as an exception
\*   timeout   : receivePacket raised SerialReadTimeoutError
\*   integrity : receivePacket / unwrap raised DataInvalidError or SerialError
\*   ok        : the reply was unwrapped, deviceData assigned   -> returns True
AckOutcomes(isOpen) ==
    (IF isOpen THEN {} ELSE {"openfail"})
        \cup {"wtimeout", "wfatal", "timeout", "integrity", "ok"}

\* SONY.unwrap: every Parameter acknowledges its flag of the status byte.
ackAll(pars, flags) == [n \in AckParams |-> ParAck(pars[n], flags[n]).par]

\* all(par.inSync for par in self.device.params)
allInSync(pars) == \A n \in AckParams : inSync(pars[n])

\* failedParams
failedParams(pars) == {n \in AckParams : ~inSync(pars[n])}

\* The loop of ackTransaction after one more transaction that did not
\* raise: "nodata" is return None, "insync" is break, "exhausted" is the
\* else clause of the for loop, "loop" is the next attempt.  This variant
\* has no attempt cap (while True).
ackExitNoCap(data, pars, count) ==
    IF data.kind = "None" THEN "nodata"
    ELSE IF allInSync(pars) THEN "insync"
    ELSE "loop"

ackExit(data, pars, count) ==
    IF data.kind = "None" THEN "nodata"
    ELSE IF allInSync(pars) THEN "insync"
    ELSE IF count = ACK_LIMIT THEN "exhausted"
    ELSE "loop"

\* Par.__set__ notifies 'altered', whose handler is ackTransaction: the
\* call is entered with no transaction issued yet.
AckAltered(name, newValue) ==
    /\ ackPc = "idle"
    /\ name \in AckParams /\ newValue \in BOOLEAN
    /\ ackPars' = [ackPars EXCEPT ![name] = ParSet(ackPars[name], newValue).par]
    /\ ackCount' = 0
    /\ ackResult' = "none"
    /\ ackReport' = {}
    /\ ackPc' = "loop"
    /\ UNCHANGED <<orchVars, parVars, wireVars, txVars, sumVars, natVars,
                   sonyVars, fcbVars, stpVars, scanVars, notifyVars,
                   shareVars, delayVars, ackData, ackOpen>>

\* One pass of the for loop: transaction(closePort=False) with the idle
\* payload, then the two exit tests.
AckAttempt(outcome, flags) ==
    /\ ackPc = "loop"
    /\ outcome \in AckOutcomes(ackOpen)
    /\ flags \in [AckParams -> BOOLEAN]
    /\ outcome # "ok" => flags = [n \in AckParams |-> FALSE]
    /\ ackCount' = ackCount + 1
    /\ ackOpen' = (outcome # "openfail")
    /\ ackPars' = IF outcome = "ok" THEN ackAll(ackPars, flags) ELSE ackPars
    /\ ackData' = IF outcome = "ok" THEN unwrapped(NoData) ELSE ackData
    /\ LET exit == IF outcome = "wfatal" THEN "raised"
                   ELSE ackExit(ackData', ackPars', ackCount')
       IN  /\ ackResult' = IF exit = "loop" THEN "none" ELSE exit
           /\ ackReport' = IF exit = "exhausted" THEN failedParams(ackPars')
                           ELSE {}
           /\ ackPc' = IF exit = "loop" THEN "loop" ELSE "finally"
    /\ UNCHANGED <<orchVars, parVars, wireVars, txVars, sumVars, natVars,
                   sonyVars, fcbVars, stpVars, scanVars, notifyVars,
                   shareVars, delayVars>>

\* finally: self.devInt.close()
AckFinally ==
    /\ ackPc = "finally"
    /\ ackOpen' = FALSE
    /\ ackPc' = "idle"
    /\ UNCHANGED <<orchVars, parVars, wireVars, txVars, sumVars, natVars,
                   sonyVars, fcbVars, stpVars, scanVars, notifyVars,
                   shareVars, delayVars, ackPars, ackData, ackCount,
                   ackResult, ackReport>>

AckNext ==
    \/ \E name \in AckParams, newValue \in BOOLEAN : AckAltered(name, newValue)
    \/ \E outcome \in AckOutcomes(ackOpen), flags \in [AckParams -> BOOLEAN] :
           AckAttempt(outcome, flags)
    \/ AckFinally

\* App.__init__ and the adapter's class attributes.
AckInit ==
    /\ ackPars = [n \in AckParams |-> ParInit(FALSE)]
    /\ ackData = NoData
    /\ ackOpen = FALSE
    /\ ackCount = 0
    /\ ackPc = "idle"
    /\ ackResult = "none"
    /\ ackReport = {}

\* ------------------------------------------ SONY native framing ---------
\* SONY.APP_TERMINATOR
APP_TERMINATOR == 255

\* readUpToFirstFF: the first byte and range(15) more.
NATIVE_MAX_SIZE == 16

\* validateCommandNative: the command types it knows.
KnownCommands == {1, 9, 33, 34, 48, 56}

\* flag(packet[0], 7): the top bit of the message header.
headerValid(byte) == byte >= 128

\* The outcome of a receiveNative call: the exception raised or "ok", the
\* message returned, what validateCommandNative logged about it, and the
\* bytes left in the port.
NativeReceived(result, data, logged, rest) ==
    [result |-> result, data |-> data, logged |-> logged, rest |-> rest]

\* 1-based index of the first byte of b that is (is not) the terminator,
\* 0 when there is none.
firstFF(b) ==
    IF \E i \in 1 .. Len(b) : b[i] = APP_TERMINATOR
    THEN CHOOSE i \in 1 .. Len(b) :
             b[i] = APP_TERMINATOR /\ \A j \in 1 .. i - 1 : b[j] # APP_TERMINATOR
    ELSE 0

firstNonFF(b) ==
    IF \E i \in 1 .. Len(b) : b[i] # APP_TERMINATOR
    THEN CHOOSE i \in 1 .. Len(b) :
             b[i] # APP_TERMINATOR /\ \A j \in 1 .. i - 1 : b[j] = APP_TERMINATOR
    ELSE 0

\* readUpToFirstFF that reads one byte more after the terminator.
readUpToFirstFFOneMore(buf) ==
    IF firstNonFF(buf) = 0
    THEN NativeReceived("SerialReadTimeoutError", <<>>, {}, <<>>)
    ELSE LET body == drop(buf, firstNonFF(buf) - 1)
             end  == firstFF(take(body, NATIVE_MAX_SIZE))
         IN  IF end # 0
             THEN NativeReceived("ok", take(body, end), {}, drop(body, end + 1))
             ELSE IF Len(body) >= NATIVE_MAX_SIZE
                  THEN NativeReceived("DataInvalidError", <<>>, {},
                                      drop(body, NATIVE_MAX_SIZE))
                  ELSE NativeReceived("SerialReadTimeoutError", <<>>, {}, <<>>)

\* SONY.readUpToFirstFF on the bytes buf waiting in the port; a read() with
\* no byte waiting raises SerialReadTimeoutError (SerialTransceiver.read).
readUpToFirstFF(buf) ==
    IF firstNonFF(buf) = 0
    THEN NativeReceived("SerialReadTimeoutError", <<>>, {}, <<>>)
    ELSE LET body == drop(buf, firstNonFF(buf) - 1)
             end  == firstFF(take(body, NATIVE_MAX_SIZE))
         IN  IF end # 0
             THEN NativeReceived("ok", take(body, end), {}, drop(body, end))
             ELSE IF Len(body) >= NATIVE_MAX_SIZE
                  THEN NativeReceived("DataInvalidError", <<>>, {},
                                      drop(body, NATIVE_MAX_SIZE))
                  ELSE NativeReceived("SerialReadTimeoutError", <<>>, {}, <<>>)

\* SONY.validateCommandNative: what it finds wrong with a message.
invalidNative(message) ==
    (IF headerValid(message[1]) THEN {} ELSE {"header"})
        \cup (IF message[2] \in KnownCommands THEN {} ELSE {"command"})

\* SONY.receiveNative: validateCommandNative only logs what it finds.
receiveNative(buf) ==
    LET r == readUpToFirstFF(buf)
    IN  IF r.result # "ok" THEN r
        ELSE NativeReceived("ok", r.data, invalidNative(r.data), r.rest)

\* The byte values of the native streams: a header without and with its top
\* bit, a known command type, the terminator.
NatBytes == {0, 1, 129, APP_TERMINATOR}

\* Leading terminators of a stream; the native control software writes
\* only once, into an empty port.
NatLeads(idle) == IF idle THEN 0 .. MaxLeadFF ELSE {}

\* Message lengths from 0 on and around the size limit.
NatFills == {0} \cup (NATIVE_MAX_SIZE - MaxFillMargin .. NATIVE_MAX_SIZE)

\* The native control software writes: lead terminators, a few bytes, a
\* run of n bytes of a command's data, a few bytes more.
NatFeed(lead, head, n, tail) ==
    /\ natIn = <<>> /\ natOut.result = "none"
    /\ lead \in NatLeads(TRUE)
    /\ Len(head) <= MaxHeadLen /\ \A i \in DOMAIN head : head[i] \in NatBytes
    /\ n \in NatFills
    /\ Len(tail) <= MaxTailLen /\ \A i \in DOMAIN tail : tail[i] \in NatBytes
    /\ natIn' = [i \in 1 .. lead |-> APP_TERMINATOR] \o head
                   \o [i \in 1 .. n |-> 1] \o tail
    /\ natIn' # <<>>
    /\ UNCHANGED <<orchVars, parVars, wireVars, txVars, sumVars, ackVars,
                   sonyVars, fcbVars, stpVars, scanVars, notifyVars,
                   shareVars, delayVars, natBefore, natOut>>

\* device.receiveNative(appInt)
NatReceive ==
    /\ natIn # <<>>
    /\ natBefore' = natIn
    /\ natOut' = receiveNative(natIn)
    /\ natIn' = receiveNative(natIn).rest
    /\ UNCHANGED <<orchVars, parVars, wireVars, txVars, sumVars, ackVars,
                   sonyVars, fcbVars, stpVars, scanVars, notifyVars,
                   shareVars, delayVars>>

NatNext ==
    \/ \E lead \in NatLeads(natIn = <<>> /\ natOut.result = "none"),
          head \in Strings(NatBytes, 0, MaxHeadLen), n \in NatFills,
          tail \in Strings(NatBytes, 0, MaxTailLen) :
           NatFeed(lead, head, n, tail)
    \/ NatReceive

\* Nothing written by the native control software yet.
NatInit ==
    /\ natIn = <<>>
    /\ natBefore = <<>>
    /\ natOut = NativeReceived("none", <<>>, {}, <<>>)

\* --------------------------------------------- SONY wrap / unwrap -------
\* SONY.APP_PACKET_MAX_SIZE and the least size validateReply accepts.
APP_PACKET_MAX_SIZE == 18

REPLY_MIN_SIZE == 3

\* The Parameters of SONY in the order of their bits in the status byte.
SonyParams == <<"POWER", "RESET", "VIDEO_IN_EN", "VIDEO_OUT_EN">>

SonyParNames == {SonyParams[i] : i \in DOMAIN SonyParams}

\* SONY.DEFAULT_PAYLOAD = IDLE_PAYLOAD = b'\xFF' * 16
DEFAULT_PAYLOAD == [i \in 1 .. 16 |-> APP_TERMINATOR]

\* Prop.__init__: value = None (the empty sequence; a value v is <<v>>).
PropInit == None

\* Prop.__set__: 'new' is notified when the value changes.
PropSet(name, value, newValue) ==
    [value   |-> <<newValue>>,
     emitted |-> IF value # <<newValue>> THEN <<<<"new", name>>>> ELSE <<>>]

\* bitsarray(POWER, RESET, VIDEO_IN_EN, VIDEO_OUT_EN): the status byte.
bitsarray(pars) ==
    (IF pars["POWER"].value THEN 1 ELSE 0)
      + (IF pars["RESET"].value THEN 2 ELSE 0)
      + (IF pars["VIDEO_IN_EN"].value THEN 4 ELSE 0)
      + (IF pars["VIDEO_OUT_EN"].value THEN 8 ELSE 0)

\* flags(packet[0], 4): the four low bits of the status byte, lowest first.
flags(byte) == [i \in 1 .. 4 |-> (byte \div (2 ^ (i - 1))) % 2 = 1]

\* SONY.wrap: TypeError when CNT_IN is None ("None + 1", "None % 0x100").
sonyWrap(pars, cntIn, data) ==
    IF cntIn = None
    THEN [result |-> "TypeError", out |-> <<>>, cntIn |-> cntIn, emitted |-> <<>>]
    ELSE LET count == IF data # DEFAULT_PAYLOAD THEN cntIn[1] + 1 ELSE cntIn[1]
         IN  [result  |-> "ok",
              out     |-> <<bitsarray(pars), count % 256>> \o data,
              cntIn   |-> <<count>>,
              emitted |-> IF data # DEFAULT_PAYLOAD
                          THEN PropSet("CNT_IN", cntIn, count).emitted ELSE <<>>]

\* SONY.validateReply without the upper size limit.
validateReplyNoMax(reply) == Len(reply) >= REPLY_MIN_SIZE

\* SONY.validateReply: TRUE when it raises nothing.
validateReply(reply) ==
    Len(reply) <= APP_PACKET_MAX_SIZE /\ Len(reply) >= REPLY_MIN_SIZE

\* The events of the four acks of SONY.unwrap, in order, each with the name
\* of its Parameter.
RECURSIVE ackEvents(_, _, _)
ackEvents(pars, bits, i) ==
    IF i > Len(SonyParams) THEN <<>>
    ELSE LET e == ParAck(pars[SonyParams[i]], bits[i]).emitted
         IN  [k \in 1 .. Len(e) |-> <<e[k], SonyParams[i]>>]
                 \o ackEvents(pars, bits, i + 1)

\* SONY.unwrap
sonyUnwrap(pars, cntOut, reply) ==
    IF ~validateReply(reply)
    THEN [result |-> "DataInvalidError", out |-> <<>>, pars |-> pars,
          cntOut |-> cntOut, emitted |-> <<>>]
    ELSE [result  |-> "ok",
          out     |-> drop(reply, 2),
          pars    |-> [n \in SonyParNames |->
                         LET i == CHOOSE k \in DOMAIN SonyParams : SonyParams[k] = n
                         IN  ParAck(pars[n], flags(reply[1])[i]).par],
          cntOut  |-> <<reply[2]>>,
          emitted |-> ackEvents(pars, flags(reply[1]), 1)
                         \o PropSet("CNT_OUT", cntOut, reply[2]).emitted]

\* The native messages given to wrap: the idle payload and two commands.
SonyMessages == {DEFAULT_PAYLOAD, <<129, 1, APP_TERMINATOR>>, <<APP_TERMINATOR>>}

\* The count CNT_IN is assigned: that of a fresh session, and that of one
\* that has forwarded 254 messages.
CounterStarts == {0, 254}

\* Status and counter bytes of the replies.
ReplyStatus == {0, 1, 15}

ReplyCounters == {0, 255}

\* Reply sizes from 0 on and around the two size limits.
ReplySizes ==
    (0 .. REPLY_MIN_SIZE + MaxReplyMargin)
    \cup (APP_PACKET_MAX_SIZE - MaxReplyMargin .. APP_PACKET_MAX_SIZE + MaxReplyMargin)

\* A reply of n bytes: status byte, counter byte and payload bytes, cut to n.
Reply(statusByte, counter, n) ==
    take(<<statusByte, counter>>, n) \o [i \in 1 .. n - 2 |-> 128]

SonyState == [pars |-> snPars, cntIn |-> snCntIn, cntOut |-> snCntOut]

SonyOp(op, arg, r) ==
    [op |-> op, arg |-> arg, result |-> r.result, out |-> r.out,
     emitted |-> r.emitted]

\* d.POWER = newValue (Par.__set__)
SnSetPar(newValue) ==
    /\ newValue \in BOOLEAN
    /\ newValue # snPars["POWER"].value
    /\ snBefore' = SonyState
    /\ snPars' = [snPars EXCEPT !["POWER"] = ParSet(snPars["POWER"], newValue).par]
    /\ snOp' = SonyOp("set", <<>>, [result |-> "ok", out |-> <<>>,
                       emitted |-> <<<<"altered", "POWER">>>>])
    /\ UNCHANGED <<orchVars, parVars, wireVars, txVars, sumVars, ackVars,
                   natVars, fcbVars, stpVars, scanVars, notifyVars,
                   shareVars, delayVars, snCntIn, snCntOut, snWraps>>

\* d.CNT_IN = count (Prop.__set__), before the first message is wrapped
SnSetCounter(count) ==
    /\ count \in CounterStarts
    /\ snWraps = 0 /\ snCntIn = None
    /\ snBefore' = SonyState
    /\ snCntIn' = PropSet("CNT_IN", snCntIn, count).value
    /\ snOp' = SonyOp("setCounter", <<>>, [result |-> "ok", out |-> <<>>,
                       emitted |-> PropSet("CNT_IN", snCntIn, count).emitted])
    /\ UNCHANGED <<orchVars, parVars, wireVars, txVars, sumVars, ackVars,
                   natVars, fcbVars, stpVars, scanVars, notifyVars,
                   shareVars, delayVars, snPars, snCntOut, snWraps>>

\* d.wrap(data)
SnWrap(data) ==
    /\ data \in SonyMessages
    /\ data # DEFAULT_PAYLOAD => snWraps < MaxWraps
    /\ snBefore' = SonyState
    /\ snCntIn' = sonyWrap(snPars, snCntIn, data).cntIn
    /\ snWraps' = IF data # DEFAULT_PAYLOAD THEN snWraps + 1 ELSE snWraps
    /\ snOp' = SonyOp("wrap", data, sonyWrap(snPars, snCntIn, data))
    /\ UNCHANGED <<orchVars, parVars, wireVars, txVars, sumVars, ackVars,
                   natVars, fcbVars, stpVars, scanVars, notifyVars,
                   shareVars, delayVars, snPars, snCntOut>>

\* d.unwrap(reply)
SnUnwrap(statusByte, counter, n) ==
    /\ statusByte \in ReplyStatus /\ counter \in ReplyCounters /\ n \in ReplySizes
    /\ snBefore' = SonyState
    /\ LET r == sonyUnwrap(snPars, snCntOut, Reply(statusByte, counter, n))
       IN  /\ snPars' = r.pars
           /\ snCntOut' = r.cntOut
           /\ snOp' = SonyOp("unwrap", Reply(statusByte, counter, n), r)
    /\ UNCHANGED <<orchVars, parVars, wireVars, txVars, sumVars, ackVars,
                   natVars, fcbVars, stpVars, scanVars, notifyVars,
                   shareVars, delayVars, snCntIn, snWraps>>

SonyNext ==
    \/ \E newValue \in BOOLEAN : SnSetPar(newValue)
    \/ \E count \in CounterStarts : SnSetCounter(count)
    \/ \E data \in SonyMessages : SnWrap(data)
    \/ \E statusByte \in ReplyStatus, counter \in ReplyCounters, n \in ReplySizes :
           SnUnwrap(statusByte, counter, n)

\* SONY's class attributes after the class body has run.
SonyInit ==
    /\ snPars = [n \in SonyParNames |-> ParInit(FALSE)]
    /\ snCntIn = PropInit
    /\ snCntOut = PropInit
    /\ snWraps = 0
    /\ snBefore = [pars |-> [n \in SonyParNames |-> ParInit(FALSE)],
                   cntIn |-> PropInit, cntOut |-> PropInit]
    /\ snOp = [op |-> "none", arg |-> <<>>, result |-> "none", out |-> <<>>,
               emitted |-> <<>>]

\* ------------------------- fcb_protocol.py: SONY.communicate ------------
\* for n in range(0x100)
FCB_ATTEMPTS == 256

\* The counter byte SONY.wrap packs: CNT_IN % 0x100.
counterByte(cntIn) == cntIn % 256

\* The test that ends the retry loop, on the raw count.
echoMatchesRaw(cntIn, cntOut) == cntIn = cntOut

\* The test that ends the retry loop: CNT_IN % 0x100 == CNT_OUT.
echoMatches(cntIn, cntOut) == cntIn % 256 = cntOut

\* The counter byte a reply can carry: that of the message just sent, or
\* that of the message before it (the device has not taken the new one yet).
Echoes(cntIn) == {counterByte(cntIn), counterByte(cntIn + 255)}

\* lines 99-109: a request of the native control software is read and counted
FcbMessage ==
    /\ fcbPc = "idle"
    /\ fcbCntIn < MaxMessages
    /\ fcbCntIn' = fcbCntIn + 1
    /\ fcbAttempt' = 0
    /\ fcbResult' = "none"
    /\ fcbPc' = "send"
    /\ UNCHANGED <<orchVars, parVars, wireVars, txVars, sumVars, ackVars,
                   natVars, sonyVars, stpVars, scanVars, notifyVars,
                   shareVars, delayVars, fcbCntOut, fcbSent>>

\* lines 111-115: devCom.sendPacket(self.wrap(data))
FcbSend ==
    /\ fcbPc = "send"
    /\ fcbSent' = counterByte(fcbCntIn)
    /\ fcbPc' = "recv"
    /\ UNCHANGED <<orchVars, parVars, wireVars, txVars, sumVars, ackVars,
                   natVars, sonyVars, stpVars, scanVars, notifyVars,
                   shareVars, delayVars, fcbCntIn, fcbCntOut, fcbAttempt,
                   fcbResult>>

\* lines 117-126: the reply is read and forwarded, CNT_OUT = reply[1], and
\* the loop ends when the echo matches or after FCB_ATTEMPTS attempts
FcbReply(echo) ==
    /\ fcbPc = "recv"
    /\ echo \in Echoes(fcbCntIn)
    /\ fcbCntOut' = echo
    /\ IF echoMatches(fcbCntIn, echo)
       THEN fcbResult' = "matched" /\ fcbPc' = "idle" /\ UNCHANGED fcbAttempt
       ELSE /\ fcbAttempt' = fcbAttempt + 1
            /\ IF fcbAttempt + 1 = FCB_ATTEMPTS
               THEN fcbResult' = "gaveup" /\ fcbPc' = "idle"
               ELSE fcbResult' = "none" /\ fcbPc' = "send"
    /\ UNCHANGED <<orchVars, parVars, wireVars, txVars, sumVars, ackVars,
                   natVars, sonyVars, stpVars, scanVars, notifyVars,
                   shareVars, delayVars, fcbCntIn, fcbSent>>

\* lines 117, 132: receivePacket raises a SerialError (no reply, bad
\* packet); the retry loop is left and communicate goes on with the next
\* request
FcbSerialError ==
    /\ fcbPc = "recv"
    /\ fcbResult' = "error"
    /\ fcbAttempt' = 0
    /\ fcbPc' = "idle"
    /\ UNCHANGED <<orchVars, parVars, wireVars, txVars, sumVars, ackVars,
                   natVars, sonyVars, stpVars, scanVars, notifyVars,
                   shareVars, delayVars, fcbCntIn, fcbCntOut, fcbSent>>

FcbNext ==
    \/ FcbMessage
    \/ FcbSend
    \/ FcbSerialError
    \/ \E echo \in Echoes(fcbCntIn) : FcbReply(echo)

\* SONY.__init__ of fcb_protocol.py
FcbInit ==
    /\ fcbCntIn = 0
    /\ fcbCntOut = 0
    /\ fcbAttempt = 0
    /\ fcbPc = "idle"
    /\ fcbSent = 0
    /\ fcbResult = "none"

\* ------------------- stopping a loop that is reading the native port ----
\* The bytes that arrive: the terminator and a message byte.
StopBytes == {APP_TERMINATOR, 129}

\* The native side writes one more byte (at most MaxWaiting wait unread).
StArrive(byte) ==
    /\ byte \in StopBytes
    /\ Len(stIn) < MaxWaiting
    /\ stIn' = Append(stIn, byte)
    /\ UNCHANGED <<orchVars, parVars, wireVars, txVars, sumVars, ackVars,
                   natVars, sonyVars, fcbVars, scanVars, notifyVars,
                   shareVars, delayVars, stPc, stGot, stStop, stCall>>

\* commLoop lines 394-402: the stop check (396-398) at the top of an iteration, then
\* receiveNative is entered; lines 444-450 when the Event is set
StCheck ==
    /\ stPc = "check"
    /\ stPc' = IF stStop THEN "done" ELSE "skip"
    /\ stGot' = 0
    /\ UNCHANGED <<orchVars, parVars, wireVars, txVars, sumVars, ackVars,
                   natVars, sonyVars, fcbVars, scanVars, notifyVars,
                   shareVars, delayVars, stIn, stStop, stCall>>

\* readUpToFirstFF lines 70-73: one read() of the loop that skips the
\* leading terminators; a read() with nothing waiting raises
\* SerialReadTimeoutError and the iteration goes on with the idle payload
StSkip ==
    /\ stPc = "skip"
    /\ IF stIn = <<>>
       THEN stPc' = "transact" /\ UNCHANGED <<stIn, stGot>>
       ELSE /\ stIn' = Tail(stIn)
            /\ IF Head(stIn) = APP_TERMINATOR
               THEN UNCHANGED <<stPc, stGot>>
               ELSE stPc' = "body" /\ stGot' = 1
    /\ UNCHANGED <<orchVars, parVars, wireVars, txVars, sumVars, ackVars,
                   natVars, sonyVars, fcbVars, scanVars, notifyVars,
                   shareVars, delayVars, stStop, stCall>>

\* readUpToFirstFF lines 74-78: one read() of the loop over the message,
\* which ends at the terminator, on a timeout or with the DataInvalidError
\* of the 16th byte
StBody ==
    /\ stPc = "body"
    /\ IF stIn = <<>>
       THEN stPc' = "transact" /\ UNCHANGED <<stIn, stGot>>
       ELSE /\ stIn' = Tail(stIn)
            /\ stGot' = stGot + 1
            /\ stPc' = IF Head(stIn) = APP_TERMINATOR \/ stGot + 1 = NATIVE_MAX_SIZE
                       THEN "transact" ELSE "body"
    /\ UNCHANGED <<orchVars, parVars, wireVars, txVars, sumVars, ackVars,
                   natVars, sonyVars, fcbVars, scanVars, notifyVars,
                   shareVars, delayVars, stStop, stCall>>

\* commLoop lines 405-433: wrap, sendPacket, receivePacket (of a device
\* that answers or stays silent), unwrap, sendNative
StTransact ==
    /\ stPc = "transact"
    /\ stPc' = "check"
    /\ UNCHANGED <<orchVars, parVars, wireVars, txVars, sumVars, ackVars,
                   natVars, sonyVars, fcbVars, scanVars, notifyVars,
                   shareVars, delayVars, stIn, stGot, stStop, stCall>>

\* App.stopComm -> stop() lines 273-276: stopEvent.set(), then thread.join()
StStopComm ==
    /\ stCall = "none"
    /\ stPc # "done"
    /\ stStop' = TRUE
    /\ stCall' = "joining"
    /\ UNCHANGED <<orchVars, parVars, wireVars, txVars, sumVars, ackVars,
                   natVars, sonyVars, fcbVars, scanVars, notifyVars,
                   shareVars, delayVars, stIn, stPc, stGot>>

\* stop() lines 276-279: join returns once the thread has ended
StJoined ==
    /\ stCall = "joining"
    /\ stPc = "done"
    /\ stCall' = "returned"
    /\ UNCHANGED <<orchVars, parVars, wireVars, txVars, sumVars, ackVars,
                   natVars, sonyVars, fcbVars, scanVars, notifyVars,
                   shareVars, delayVars, stIn, stPc, stGot, stStop>>

StWorker == StCheck \/ StSkip \/ StBody \/ StTransact

StopNext ==
    \/ \E byte \in StopBytes : StArrive(byte)
    \/ StCheck
    \/ StSkip
    \/ StBody
    \/ StTransact
    \/ StStopComm
    \/ StJoined

\* A Continuous loop has just been started on an empty port.
StopInit ==
    /\ stIn = <<>>
    /\ stPc = "check"
    /\ stGot = 0
    /\ stStop = FALSE
    /\ stCall = "none"

\* ------------------------------------------- the resync scan, counted ---
\* The readSimple(HEADER_LEN) calls of the scan that returned bytes: those of
\* the "while True" loop (lines 195-203) and the one that ends an iteration
\* of the "for" loop (line 212), over the iterations resync goes through.
RECURSIVE scanPortions(_, _, _)
scanPortions(b, buf, i) ==
    IF i > RESYNC_ATTEMPTS
    THEN 0
    ELSE LET s        == seekStartbyte(b, buf)
             sought   == (Len(buf) - Len(s.rest) + HEADER_LEN - 1) \div HEADER_LEN
         IN  IF ~s.found THEN sought
             ELSE LET startbyteIndex == find(s.b)
                      headerReminder == take(s.rest, startbyteIndex)
                      rest           == drop(s.rest, startbyteIndex)
                      header         == drop(s.b, startbyteIndex) \o headerReminder
                  IN  IF Len(headerReminder) < startbyteIndex \/ sumOk(header)
                      THEN sought
                      ELSE sought + (IF rest = <<>> THEN 0 ELSE 1)
                             + scanPortions(take(rest, HEADER_LEN),
                                            drop(rest, HEADER_LEN), i + 1)

\* The portions the scan of one receivePacket call reads (none when the
\* first HEADER_LEN bytes are a valid header or too few).
portionsRead(buf) ==
    LET bytesReceived == take(buf, HEADER_LEN)
    IN  IF Len(bytesReceived) < HEADER_LEN
           \/ (bytesReceived[1] = STARTBYTE /\ sumOk(bytesReceived))
        THEN 0
        ELSE scanPortions(bytesReceived, drop(buf, HEADER_LEN), 1)

\* Line noise without a start byte, n bytes of it.
zeros(n) == [i \in 1 .. n |-> 0]

\* n headers with a start byte and a wrong checksum, back to back.
badHeaders(n) == [i \in 1 .. HEADER_LEN * n |-> IF i % HEADER_LEN = 1 THEN STARTBYTE ELSE 0]

\* What follows the noise: nothing, a packet without payload, or the first
\* bytes of a packet whose rest does not arrive in time: four bytes that
\* start with the start byte and whose checksum is zero.
ScanTails == {<<>>, packet(<<>>), <<STARTBYTE, 0, 165, 255>>}

\* The noise portions to feed: none unless the port is still untouched.
ScanNoise(fresh) == IF fresh THEN 0 .. MaxNoisePortions ELSE {}

\* The device port receives noise, bad headers and a tail.
ScFeed(noise, headers, tail) ==
    /\ scIn = <<>>
    /\ scOut.result = "none"
    /\ noise \in 0 .. MaxNoisePortions
    /\ headers \in 0 .. MaxBadHeaders
    /\ noise = 0 \/ headers <= 1
    /\ tail \in ScanTails
    /\ noise + headers + Len(tail) > 0
    /\ scIn' = zeros(HEADER_LEN * noise) \o badHeaders(headers) \o tail
    /\ UNCHANGED <<orchVars, parVars, wireVars, txVars, sumVars, ackVars,
                   natVars, sonyVars, fcbVars, stpVars, notifyVars,
                   shareVars, delayVars, scOut>>

\* PelengTransceiver.receivePacket on what has arrived
ScReceive ==
    /\ scIn # <<>>
    /\ scOut.result = "none"
    /\ LET r == receivePacket(scIn)
       IN  /\ scOut' = [result |-> r.result, portions |-> portionsRead(scIn)]
           /\ scIn' = r.rest
    /\ UNCHANGED <<orchVars, parVars, wireVars, txVars, sumVars, ackVars,
                   natVars, sonyVars, fcbVars, stpVars, notifyVars,
                   shareVars, delayVars>>

ScanNext ==
    \/ \E noise \in ScanNoise(scIn = <<>> /\ scOut.result = "none"),
          headers \in 0 .. MaxBadHeaders, tail \in ScanTails :
          ScFeed(noise, headers, tail)
    \/ ScReceive

ScanInit ==
    /\ scIn = <<>>
    /\ scOut = [result |-> "none", portions |-> 0]

\* ------------------------------------------------ notifier.py: Notifier --
\* Event names (one of a Parameter, one of the App) and handlers.
EventNames == {"altered", "comm ok"}

Handlers == {"ackTransaction", "commOk.emit"}

\* The *events arguments of addEvents: up to MaxEventArgs names.
EventArgs == UNION {[1 .. n -> EventNames] : n \in 1 .. MaxEventArgs}

\* cls.events[event] = OrderedSet()
registered(events, event) ==
    [e \in DOMAIN events \cup {event} |-> IF e = event THEN <<>> ELSE events[e]]

\* Notifier.addEvents (lines 22-27): every name in turn; ValueError leaves
\* the names before it registered anew.
RECURSIVE addEvents(_, _, _)
addEvents(events, names, unique) ==
    IF names = <<>> THEN [events |-> events, result |-> "None"]
    ELSE IF Head(names) \in DOMAIN events /\ unique
         THEN [events |-> events, result |-> "ValueError"]
         ELSE addEvents(registered(events, Head(names)), Tail(names), unique)

\* OrderedSet.add
orderedAdd(handlers, handler) ==
    IF \E i \in DOMAIN handlers : handlers[i] = handler
    THEN handlers ELSE Append(handlers, handler)

\* Notifier.addEvents(*names, unique=unique)
NtAddEvents(names, unique) ==
    /\ names \in EventArgs
    /\ unique \in BOOLEAN
    /\ LET r == addEvents(ntEvents, names, unique)
       IN  /\ ntEvents' = r.events
           /\ ntResult' = r.result
    /\ ntOp' = <<"addEvents", names[1]>>
    /\ ntCalled' = <<>>
    /\ UNCHANGED <<orchVars, parVars, wireVars, txVars, sumVars, ackVars,
                   natVars, sonyVars, fcbVars, stpVars, scanVars, shareVars,
                   delayVars, ntAdded>>

\* Notifier.addHandler (lines 46-60) with REQUIRE_REGISTER = True (line 14)
NtAddHandler(event, handler) ==
    /\ event \in EventNames
    /\ handler \in Handlers
    /\ ntOp' = <<"addHandler", event>>
    /\ ntCalled' = <<>>
    /\ IF event \in DOMAIN ntEvents
       THEN /\ ntEvents' = [ntEvents EXCEPT ![event] = orderedAdd(@, handler)]
            /\ ntAdded' = ntAdded \cup {<<event, handler>>}
            /\ ntResult' = "True"
       ELSE /\ ntResult' = "ValueError"
            /\ UNCHANGED <<ntEvents, ntAdded>>
    /\ UNCHANGED <<orchVars, parVars, wireVars, txVars, sumVars, ackVars,
                   natVars, sonyVars, fcbVars, stpVars, scanVars, shareVars,
                   delayVars>>

\* Notifier.notify (lines 29-44) with REQUIRE_REGISTER = True
NtNotify(event) ==
    /\ event \in EventNames
    /\ ntOp' = <<"notify", event>>
    /\ IF event \in DOMAIN ntEvents
       THEN /\ ntCalled' = ntEvents[event]
            /\ ntResult' = "True"
       ELSE /\ ntCalled' = <<>>
            /\ ntResult' = "ValueError"
    /\ UNCHANGED <<orchVars, parVars, wireVars, txVars, sumVars, ackVars,
                   natVars, sonyVars, fcbVars, stpVars, scanVars, shareVars,
                   delayVars, ntEvents, ntAdded>>

NotifyNext ==
    \/ \E names \in EventArgs, unique \in BOOLEAN : NtAddEvents(names, unique)
    \/ \E event \in EventNames, handler \in Handlers : NtAddHandler(event, handler)
    \/ \E event \in EventNames : NtNotify(event)

\* events: MutableMapping[str, OrderedSet] = {} (line 20)
NotifyInit ==
    /\ ntEvents = <<>>
    /\ ntAdded = {}
    /\ ntOp = <<"none", "none">>
    /\ ntCalled = <<>>
    /\ ntResult = "None"

\* ------------------- Smart mode: ncsLoop and ackTransaction together ----
\* The thread of ncsLoop and the thread that changes a Parameter, whose
\* 'altered' event runs ackTransaction (ui.py line 381).
ShareThreads == {"ncs", "ack"}

\* Where transaction() returns to: ncsLoop line 471, ackTransaction line 532.
afterTransaction(thread) == IF thread = "ncs" THEN "after" ELSE "test"

\* ncsLoop lines 460-470: receiveNative; a timeout or a bad message starts
\* the next iteration, a message starts a transaction
ShNcsNative(outcome) ==
    /\ shPc["ncs"] = "native"
    /\ outcome \in {"ok", "timeout", "integrity"}
    /\ shPc' = [shPc EXCEPT !["ncs"] = IF outcome = "ok" THEN "lock" ELSE "native"]
    /\ UNCHANGED <<orchVars, parVars, wireVars, txVars, sumVars, ackVars,
                   natVars, sonyVars, fcbVars, stpVars, scanVars, notifyVars,
                   delayVars, shLock, shDevOpen, shState, shCount>>

\* Par.set notifies 'altered' (device.py line 59): ackTransaction begins
\* (line 530), in the thread that called set
ShAckStart ==
    /\ shPc["ack"] = "idle"
    /\ shCount' = 0
    /\ shPc' = [shPc EXCEPT !["ack"] = "lock"]
    /\ UNCHANGED <<orchVars, parVars, wireVars, txVars, sumVars, ackVars,
                   natVars, sonyVars, fcbVars, stpVars, scanVars, notifyVars,
                   delayVars, shLock, shDevOpen, shState>>

\* transaction line 496: with self.device.lock
ShLock(thread) ==
    /\ thread \in ShareThreads
    /\ shPc[thread] = "lock"
    /\ shLock = "none"
    /\ shLock' = thread
    /\ shPc' = [shPc EXCEPT ![thread] = "open"]
    /\ shCount' = IF thread = "ack" THEN shCount + 1 ELSE shCount
    /\ UNCHANGED <<orchVars, parVars, wireVars, txVars, sumVars, ackVars,
                   natVars, sonyVars, fcbVars, stpVars, scanVars, notifyVars,
                   delayVars, shDevOpen, shState>>

\* transaction lines 497-507: wrap, then open the device port if it is
\* closed; a failed open returns False
ShOpen(thread, fails) ==
    /\ thread \in ShareThreads
    /\ shPc[thread] = "open"
    /\ fails \in BOOLEAN
    /\ IF shDevOpen
       THEN /\ fails = FALSE
            /\ shPc' = [shPc EXCEPT ![thread] = "send"]
            /\ UNCHANGED <<shState, shLock, shDevOpen>>
       ELSE IF fails
            THEN /\ shState' = [shState EXCEPT ![thread] = "False"]
                 /\ shLock' = "none"
                 /\ shPc' = [shPc EXCEPT ![thread] = afterTransaction(thread)]
                 /\ UNCHANGED shDevOpen
            ELSE /\ shDevOpen' = TRUE
                 /\ shPc' = [shPc EXCEPT ![thread] = "send"]
                 /\ UNCHANGED <<shState, shLock>>
    /\ UNCHANGED <<orchVars, parVars, wireVars, txVars, sumVars, ackVars,
                   natVars, sonyVars, fcbVars, stpVars, scanVars, notifyVars,
                   delayVars, shCount>>

\* transaction lines 508-513: sendPacket; a write timeout returns False, the
\* SerialError of a port that is not open leaves transaction() (and the
\* lock) as an exception
ShSend(thread, outcome) ==
    /\ thread \in ShareThreads
    /\ shPc[thread] = "send"
    /\ outcome \in IF shDevOpen THEN {"ok", "wtimeout"} ELSE {"fatal"}
    /\ CASE outcome = "ok" ->
              /\ shPc' = [shPc EXCEPT ![thread] = "recv"]
              /\ UNCHANGED <<shState, shLock>>
         [] outcome = "wtimeout" ->
              /\ shState' = [shState EXCEPT ![thread] = "False"]
              /\ shLock' = "none"
              /\ shPc' = [shPc EXCEPT ![thread] = afterTransaction(thread)]
         [] outcome = "fatal" ->
              /\ shState' = [shState EXCEPT ![thread] = "SerialError"]
              /\ shLock' = "none"
              /\ shPc' = [shPc EXCEPT ![thread] = "finally"]
    /\ UNCHANGED <<orchVars, parVars, wireVars, txVars, sumVars, ackVars,
                   natVars, sonyVars, fcbVars, stpVars, scanVars, notifyVars,
                   delayVars, shDevOpen, shCount>>

\* transaction lines 514-526 (closePort = False): receivePacket and unwrap;
\* every error is caught here, also that of a port that is not open
ShReceive(thread, outcome) ==
    /\ thread \in ShareThreads
    /\ shPc[thread] = "recv"
    /\ outcome \in IF shDevOpen THEN {"ok", "timeout", "integrity"} ELSE {"fatal"}
    /\ shState' = [shState EXCEPT ![thread] = IF outcome = "ok" THEN "True" ELSE "None"]
    /\ shLock' = "none"
    /\ shPc' = [shPc EXCEPT ![thread] = afterTransaction(thread)]
    /\ UNCHANGED <<orchVars, parVars, wireVars, txVars, sumVars, ackVars,
                   natVars, sonyVars, fcbVars, stpVars, scanVars, notifyVars,
                   delayVars, shDevOpen, shCount>>

\* ncsLoop lines 471-480: sendNative after a transaction that returned True,
\* then the device port is closed unless native input is pending
ShNcsAfter(pending) ==
    /\ shPc["ncs"] = "after"
    /\ pending \in BOOLEAN
    /\ shDevOpen' = (shDevOpen /\ pending)
    /\ shPc' = [shPc EXCEPT !["ncs"] = "native"]
    /\ UNCHANGED <<orchVars, parVars, wireVars, txVars, sumVars, ackVars,
                   natVars, sonyVars, fcbVars, stpVars, scanVars, notifyVars,
                   delayVars, shLock, shState, shCount>>

\* ncsLoop lines 481-493: the SerialError is caught, both ports are closed
\* and the thread ends
ShNcsFinally ==
    /\ shPc["ncs"] = "finally"
    /\ shDevOpen' = FALSE
    /\ shPc' = [shPc EXCEPT !["ncs"] = "off"]
    /\ UNCHANGED <<orchVars, parVars, wireVars, txVars, sumVars, ackVars,
                   natVars, sonyVars, fcbVars, stpVars, scanVars, notifyVars,
                   delayVars, shLock, shState, shCount>>

\* ackTransaction lines 530-537: return when no reply is stored, leave the
\* loop when every Parameter is in sync or after `limit` transactions
\* (here: MaxAckTransactions), otherwise go round again
ShAckTest(again) ==
    /\ shPc["ack"] = "test"
    /\ again \in BOOLEAN
    /\ again => shCount < MaxAckTransactions
    /\ shPc' = [shPc EXCEPT !["ack"] = IF again THEN "lock" ELSE "finally"]
    /\ UNCHANGED <<orchVars, parVars, wireVars, txVars, sumVars, ackVars,
                   natVars, sonyVars, fcbVars, stpVars, scanVars, notifyVars,
                   delayVars, shLock, shDevOpen, shState, shCount>>

\* ackTransaction lines 538-539: finally: self.devInt.close()
ShAckFinally ==
    /\ shPc["ack"] = "finally"
    /\ shDevOpen' = FALSE
    /\ shPc' = [shPc EXCEPT !["ack"] = "idle"]
    /\ UNCHANGED <<orchVars, parVars, wireVars, txVars, sumVars, ackVars,
                   natVars, sonyVars, fcbVars, stpVars, scanVars, notifyVars,
                   delayVars, shLock, shState, shCount>>

ShareNext ==
    \/ \E outcome \in {"ok", "timeout", "integrity"} : ShNcsNative(outcome)
    \/ ShAckStart
    \/ \E thread \in ShareThreads : ShLock(thread)
    \/ \E thread \in ShareThreads, fails \in BOOLEAN : ShOpen(thread, fails)
    \/ \E thread \in ShareThreads, outcome \in {"ok", "wtimeout", "fatal"} :
          ShSend(thread, outcome)
    \/ \E thread \in ShareThreads, outcome \in {"ok", "timeout", "integrity", "fatal"} :
          ShReceive(thread, outcome)
    \/ \E pending \in BOOLEAN : ShNcsAfter(pending)
    \/ ShNcsFinally
    \/ \E again \in BOOLEAN : ShAckTest(again)
    \/ ShAckFinally

\* enableSmart has started ncsLoop (the native port is open, the device
\* port is not); no Parameter has been changed yet.
ShareInit ==
    /\ shPc = [thread \in ShareThreads |-> IF thread = "ncs" THEN "native" ELSE "idle"]
    /\ shLock = "none"
    /\ shDevOpen = FALSE
    /\ shState = [thread \in ShareThreads |-> "None"]
    /\ shCount = 0

\* ------------------------------ the wait after a device read timeout ----
\* CONFIG.SMALL_TIMEOUT_DELAY (0.5 s) and CONFIG.BIG_TIMEOUT_DELAY (5 s), in
\* half seconds, and CONFIG.NO_REPLY_HOPELESS.
SMALL_TIMEOUT_DELAY == 1

BIG_TIMEOUT_DELAY == 10

NO_REPLY_HOPELESS == 50

\* The delay with the long wait one timeout late.
timeoutDelayLate(nTimeouts) ==
    IF nTimeouts <= NO_REPLY_HOPELESS THEN SMALL_TIMEOUT_DELAY ELSE BIG_TIMEOUT_DELAY

\* deviceErrorsHandler line 362: the argument of stopEvent.wait
timeoutDelay(nTimeouts) ==
    IF nTimeouts < NO_REPLY_HOPELESS THEN SMALL_TIMEOUT_DELAY ELSE BIG_TIMEOUT_DELAY

\* commLoop lines 396-398: the stop check; the native read, wrap and
\* sendPacket of lines 400-413 lead to the device read
DlCheck ==
    /\ dlPc = "check"
    /\ dlPc' = IF dlStop THEN "done" ELSE "recv"
    /\ dlLeft' = 0
    /\ UNCHANGED <<orchVars, parVars, wireVars, txVars, sumVars, ackVars,
                   natVars, sonyVars, fcbVars, stpVars, scanVars, notifyVars,
                   shareVars, dlTimeouts, dlStop>>

\* commLoop lines 415-417 under deviceErrorsHandler (lines 348-381): a
\* timeout is counted and the wait begins; an integrity error leaves the
\* counter, a reply resets it
DlReceive(outcome) ==
    /\ dlPc = "recv"
    /\ outcome \in {"ok", "timeout", "integrity"}
    /\ outcome = "timeout" => dlTimeouts < MaxDelayTimeouts
    /\ CASE outcome = "timeout" ->
              /\ dlTimeouts' = dlTimeouts + 1
              /\ dlLeft' = timeoutDelay(dlTimeouts + 1)
              /\ dlPc' = "wait"
         [] outcome = "ok" ->
              /\ dlTimeouts' = 0
              /\ dlPc' = "check"
              /\ UNCHANGED dlLeft
         [] outcome = "integrity" ->
              /\ dlPc' = "check"
              /\ UNCHANGED <<dlTimeouts, dlLeft>>
    /\ UNCHANGED <<orchVars, parVars, wireVars, txVars, sumVars, ackVars,
                   natVars, sonyVars, fcbVars, stpVars, scanVars, notifyVars,
                   shareVars, dlStop>>

\* Event.wait(timeout): half a second passes with the Event not set
DlTick ==
    /\ dlPc = "wait"
    /\ ~dlStop
    /\ dlLeft > 0
    /\ dlLeft' = dlLeft - 1
    /\ UNCHANGED <<orchVars, parVars, wireVars, txVars, sumVars, ackVars,
                   natVars, sonyVars, fcbVars, stpVars, scanVars, notifyVars,
                   shareVars, dlPc, dlTimeouts, dlStop>>

\* Event.wait(timeout) returns: the time is over or the Event is set
DlWake ==
    /\ dlPc = "wait"
    /\ dlLeft = 0 \/ dlStop
    /\ dlPc' = "check"
    /\ UNCHANGED <<orchVars, parVars, wireVars, txVars, sumVars, ackVars,
                   natVars, sonyVars, fcbVars, stpVars, scanVars, notifyVars,
                   shareVars, dlTimeouts, dlLeft, dlStop>>

\* stop() line 275: stopEvent.set()
DlStopComm ==
    /\ ~dlStop
    /\ dlPc # "done"
    /\ dlStop' = TRUE
    /\ UNCHANGED <<orchVars, parVars, wireVars, txVars, sumVars, ackVars,
                   natVars, sonyVars, fcbVars, stpVars, scanVars, notifyVars,
                   shareVars, dlPc, dlTimeouts, dlLeft>>

DelayNext ==
    \/ DlCheck
    \/ \E outcome \in {"ok", "timeout", "integrity"} : DlReceive(outcome)
    \/ DlTick
    \/ DlWake
    \/ DlStopComm

\* commLoop has been started: the counters are 0 and the Event is new.
DelayInit ==
    /\ dlPc = "check"
    /\ dlTimeouts = 0
    /\ dlLeft = 0
    /\ dlStop = FALSE

\* ------------------------------------------------------------- Init -----
Init == OrchInit /\ ParSpecInit /\ WireInit /\ TxInit /\ SumInit /\ AckInit /\ NatInit /\ SonyInit /\ FcbInit /\ StopInit /\ ScanInit /\ NotifyInit /\ ShareInit /\ DelayInit

\* ----------------------------------------------------- specifications ---
Next == CommStep \/ CmdStep

Spec == Init /\ [][Next]_vars

NextSmart == CommStep \/ CmdStep \/ NcsStep \/ SmartCmdStep

SpecSmart == Init /\ [][NextSmart]_vars

SpecPar == Init /\ [][ParNext]_vars

SpecWire == Init /\ [][WireNext]_vars

SpecSend == Init /\ [][TxNext]_vars

SpecSum == Init /\ [][SumNext]_vars


SpecAck == Init /\ [][AckNext]_vars

SpecNative == Init /\ [][NatNext]_vars

SpecSony == Init /\ [][SonyNext]_vars

SpecFcb == Init /\ [][FcbNext]_vars

\* The orchestrator with its threads scheduled fairly: the worker goes on
\* whenever it can take a step (every port call returns, at the latest by
\* its timeout), and the command thread finishes a call it has begun
\* whenever it can; nothing obliges the user to make a call.
SpecLive ==
    Init /\ [][Next]_vars
         /\ WF_vars(CommStep) /\ WF_vars(cmdPc # "idle" /\ CmdStep)

\* The worker thread is scheduled whenever it can take a step (a read()
\* returns, at the latest by its timeout) and join returns once the thread
\* has ended; the bytes arrive as the native side pleases.
SpecStop ==
    Init /\ [][StopNext]_vars /\ WF_vars(StWorker) /\ WF_vars(StJoined)

SpecScan == Init /\ [][ScanNext]_vars

SpecNotify == Init /\ [][NotifyNext]_vars

SpecShare == Init /\ [][ShareNext]_vars

SpecDelay == Init /\ [][DelayNext]_vars

\* ------------------------------------------------------------ claims ----
\* Whether event e is among the notified events.
Notified(events, e) == \E i \in DOMAIN events : events[i] = e

\* The latest of the notified events ("-" when there is none).
LastOf(events) == IF events = <<>> THEN "-" ELSE events[Len(events)]

\* commLoop's latest port call of this iteration raised a fatal error.
Abnormal == Len(commIo) = 2 /\ commIo[2] = "fatal"

\* The event a recoverable read failure is notified with.
EventOf(outcome) == IF outcome = "timeout" THEN "comm timeout" ELSE "comm error"

\* C1 (as stated): no Parameter mutation takes effect between wrap() and
\* unwrap() of a transaction: while commLoop is between the two, the status
\* byte it wrapped still carries the requested value of the Parameter.
C1_NoSetBetweenWrapAndUnwrap ==
    commPc \in {"send", "recv", "unwrap"} => nativeData.flags = <<POWER.value>>

\* C2 (as stated): while setProtocol has not yet stopped (joined) the old
\* loop, the worker makes no call on the new adapter.
C2_NoStepWithNewAdapterBeforeStop ==
    (cmdPc \in {"spLock", "spRestart", "spJoin"} /\ commAlive)
       => commAdapter # device

\* C3 (as stated): a write timeout on an open endpoint is fatal: commLoop
\* notifies 'comm failed' and goes to its cleanup path.
C3_WriteTimeoutFatal ==
    (Len(commIo) = 2 /\ commIo[2] = "wtimeout")
       => (commPc = "finally" /\ Notified(commNotified, "comm failed"))

\* C3 (amended): a write timeout is recovered, not fatal.  On sendPacket
\* the loop notifies 'comm error' and goes on with the next iteration; on
\* sendNative it notifies 'comm error' only if the native connection had
\* been established, then 'comm ok', and goes on with the next iteration.
\* Neither notifies 'comm failed'.  (With no connection established the
\* native read of that iteration failed its integrity check: the one 'comm
\* error' of the iteration is that read's.)
C3_WriteTimeoutRecovered ==
    /\ commIo = <<"sendPacket", "wtimeout">>
          => /\ commPc = "check"
             /\ LastOf(commNotified) = "comm error"
             /\ ~Notified(commNotified, "comm failed")
    /\ commIo = <<"sendNative", "wtimeout">>
          => /\ commPc = "check"
             /\ LastOf(commNotified) = "comm ok"
             /\ ~Notified(commNotified, "comm failed")
             /\ IF nativeSoftConnEstablished
                THEN /\ Len(commNotified) >= 2
                     /\ commNotified[Len(commNotified) - 1] = "comm error"
                ELSE commNotified = <<"comm error", "comm ok">>

\* C3 witness: a sendPacket write timeout has happened and the loop, not
\* asked to stop, is back at the top of its next iteration.
C3_WriteTimeoutSeen ==
    commIo = <<"sendPacket", "wtimeout">> /\ commPc = "check" /\ ~commStop

\* C4: whenever the Continuous loop has ended, both ports are closed, both
\* timeout counters are 0, commRunning is false and 'comm stopped' was
\* notified exactly once, as the last event, right after 'comm failed'
\* when the loop ended on a fatal error.
C4_LoopEndCleanup ==
    (commThread /\ commPc = "off")
       => /\ ~appOpen /\ ~devOpen
          /\ appTimeouts = 0 /\ devTimeouts = 0
          /\ ~commRunning
          /\ nCommStopped = 1
          /\ LastOf(commNotified) = "comm stopped"
          /\ IF Abnormal
             THEN /\ Len(commNotified) >= 2
                  /\ commNotified[Len(commNotified) - 1] = "comm failed"
             ELSE commNotified = <<"comm stopped">>

\* C4 witness: a loop that ended on a fatal error, after a read timeout had
\* been counted.
C4_AbnormalEndSeen ==
    /\ commThread /\ commPc = "off" /\ Abnormal
    /\ Notified(commNotified, "comm timeout")

\* C5: a read timeout or an integrity failure on either endpoint does not
\* end the loop: 'comm timeout' / 'comm error' is notified, never 'comm
\* failed'; after a failed device read the loop goes on with the next
\* iteration; after a failed native read the idle payload is what is
\* wrapped and sent to the device.
C5_ReadFailuresRecovered ==
    /\ \A outcome \in {"timeout", "integrity"} :
          /\ commIo = <<"receiveNative", outcome>>
                => /\ commPc \in {"wrap", "send"}
                   /\ LastOf(commNotified) = EventOf(outcome)
                   /\ ~Notified(commNotified, "comm failed")
          /\ commIo = <<"receivePacket", outcome>>
                => /\ commPc = "check"
                   /\ LastOf(commNotified) = EventOf(outcome)
                   /\ ~Notified(commNotified, "comm failed")
    /\ (/\ commPc \in {"wrap", "send", "recv"}
        /\ \/ Notified(commNotified, "comm timeout")
           \/ Notified(commNotified, "comm error"))
          => nativeData.kind = "IDLE"

\* C5 witness: the native read timed out and the idle payload has been
\* sent to the device.
C5_IdlePayloadSent ==
    /\ commPc = "recv" /\ commIo = <<"sendPacket", "ok">>
    /\ commNotified = <<"comm timeout">>
    /\ nativeData.kind = "IDLE"

\* C6: after a startComm whose open() failed no worker exists, both ports
\* are closed, 'comm dropped' was notified, and a further startComm can
\* open the ports, launch the worker and return True.
C6_FailedStartRollsBack ==
    status = <<"startComm", "False">>
       => /\ ~commThread /\ ~commAlive
          /\ ~appOpen /\ ~devOpen
          /\ Notified(cmdNotified, "comm dropped")
          /\ (cmdPc = "idle" /\ calls < MaxCalls)
                => ENABLED (StartComm("none") /\ status' = <<"startComm", "True">>)

\* C6 witness: a startComm has failed and the command thread may call again.
C6_FailedStartSeen ==
    status = <<"startComm", "False">> /\ cmdPc = "idle" /\ calls < MaxCalls

C8_NoSharedEndpoint ==
    /\ ~(commPc \in {"recvNative", "sendNative"} /\ ncsPc \in {"recv", "afterTx"})
    /\ ~(commPc \in {"send", "recv"} /\ ncsPc \in {"txSend", "txRecv"})

\* C9 (as stated): startComm returns None only when the Continuous loop is
\* actually running.
C9_NoneOnlyWhenRunning ==
    [][((\E fails \in {"none", "app", "dev"} : StartComm(fails))
           /\ status' = <<"startComm", "None">>) => commAlive]_vars

\* C10 (as stated): value == status never holds at the moment 'unexpected'
\* is notified.
C10_UnexpectedNeverWhenInSync ==
    Notified(parEmitted, "unexpected") => ~inSync(parBefore)

\* C10 (amended): 'unexpected' is notified only by an ack() that finds the
\* Parameter in sync (value == status, a confirmed value existing) and is
\* given another value, and leaves it out of sync; an ack() brings an
\* out-of-sync Parameter in sync only when the value it is given equals
\* the requested value, and then notifies 'updated', never 'unexpected'.
C10_UnexpectedOnlyFromSync ==
    /\ Notified(parEmitted, "unexpected")
          => /\ parOp[1] = "ack"
             /\ inSync(parBefore)
             /\ parOp[2] # parBefore.value
             /\ ~inSync(par)
    /\ (parOp[1] = "ack" /\ inSync(par) /\ ~inSync(parBefore))
          => /\ parOp[2] = par.value
             /\ Notified(parEmitted, "updated")
             /\ ~Notified(parEmitted, "unexpected")

\* C10 witness: an ack() notified 'unexpected' on a Parameter that was in sync.
C10_UnexpectedSeen ==
    Notified(parEmitted, "unexpected") /\ inSync(parBefore)

\* The number of times the event e occurs in a sequence of events.
CountOf(events, e) == Cardinality({i \in DOMAIN events : events[i] = e})

\* C11: an ack() notifies 'unexpected' exactly when a confirmed value
\* exists, the requested value equals it and the reported value differs
\* from it; neither the first report ever nor a report that differs from
\* the confirmed value while another value is requested notifies it.
C11_UnexpectedIff ==
    parOp[1] = "ack"
       => /\ Notified(parEmitted, "unexpected")
               <=> /\ parBefore.status # None
                   /\ parBefore.value = parBefore.status[1]
                   /\ parOp[2] # parBefore.status[1]
          /\ parBefore.status = None => ~Notified(parEmitted, "unexpected")
          /\ (/\ parBefore.status # None
              /\ parOp[2] # parBefore.status[1]
              /\ parBefore.value # parBefore.status[1])
                => ~Notified(parEmitted, "unexpected")

\* C11 witness: both excluded cases and the 'unexpected' case are the
\* latest ack(): here a first report that differs from the requested value.
C11_FirstReportDiffers ==
    /\ parOp[1] = "ack"
    /\ parBefore.status = None
    /\ parOp[2] # parBefore.value
    /\ parEmitted = <<"connection", "new">>

\* C12: an ack() of the value already confirmed changes nothing and
\* notifies nothing; any other ack() ends with the confirmed value equal to
\* the reported one and notifies 'new' exactly once, so that repeating the
\* same ack() would notify nothing.
C12_AckIdempotent ==
    parOp[1] = "ack"
       => IF parBefore.status = <<parOp[2]>>
          THEN par = parBefore /\ parEmitted = <<>>
          ELSE /\ par.status = <<parOp[2]>>
               /\ par.value = parBefore.value
               /\ CountOf(parEmitted, "new") = 1
               /\ ParAck(par, parOp[2]) = [par |-> par, emitted |-> <<>>]

\* C12 witness: an ack() replaced a confirmed value by a reported value
\* that is not the requested one.
C12_ConfirmedReplaced ==
    /\ parOp[1] = "ack"
    /\ parBefore.status # None
    /\ par.status # parBefore.status
    /\ par.status # <<par.value>>
    /\ CountOf(parEmitted, "new") = 1

\* C13: a set() stores the requested value, notifies 'altered' exactly
\* once and nothing else, and leaves the confirmed value as it was; the
\* confirmed value changes only in a step that is an ack().
C13_SetKeepsStatus ==
    [][/\ parOp'[1] = "set"
          => /\ par'.value = parOp'[2]
             /\ par'.status = par.status
             /\ parEmitted' = <<"altered">>
       /\ par'.status # par.status => parOp'[1] = "ack"]_vars

\* C13 witness: a set() on a Parameter with a confirmed value requested
\* another value.
C13_SetOnConfirmed ==
    /\ parOp[1] = "set"
    /\ parBefore.status # None
    /\ par.value # parBefore.value
    /\ par.status = parBefore.status

\* C14: when unwrap() is given a well-formed reply whose POWER flag is the
\* other value while POWER is in sync, it raises DeviceError: the
\* iteration does not go on to sendNative, the loop is left through its
\* error path.
C14_UnpromptedChangeRaises ==
    [][(/\ commPc = "unwrap"
        /\ commPc' # "unwrap"
        /\ deviceData.kind = "REPLY"
        /\ deviceData.valid
        /\ inSync(POWER)
        /\ deviceData.flags[1] # POWER.value)
          => /\ commPc' = "finally"
             /\ commIo' = <<"unwrap", "fatal">>]_vars

\* The entries i, i+1, ... of the history are the calls given by ops, the
\* first of them made on an empty input buffer.
Scenario(i, ops) ==
    /\ i + Len(ops) - 1 <= Len(wireOps)
    /\ wireOps[i].before = 0
    /\ \A k \in 1 .. Len(ops) : wireOps[i + k - 1].op = ops[k]

\* C15: when garbage bytes, the start byte among them or not, are followed
\* at once by one valid packet, receivePacket returns that packet's
\* payload and leaves nothing in the input buffer.
C15_ResyncFindsPacket ==
    Scenario(1, <<"noise", "send", "recv">>)
       => /\ wireOps[3].result = "ok"
          /\ wireOps[3].data = wireOps[2].data
          /\ rxBuf = <<>>


\* C16: the bytes sendPacket writes for a payload of any length it
\* accepts, even or odd, read back by receivePacket, give exactly that
\* payload: the pad byte of an odd payload is dropped, and nothing is left
\* in the input buffer.
C16_RoundTrip ==
    txEcho.result # "none"
       => /\ txEcho.result = "ok"
          /\ txEcho.data = txMsg
          /\ txEcho.rest = <<>>
          /\ txLine = <<>>

\* C16 witness: the longest payload sendPacket accepts, of odd length, was
\* written with its pad byte and came back without it.
C16_LongestPayloadEchoed ==
    /\ Len(txMsg) = MAX_DATALEN
    /\ Len(txMsg) % 2 = 1
    /\ txEcho.result = "ok"
    /\ txEcho.data = txMsg

C18_AcceptsUpToFieldLimit ==
    (txResult # "none" /\ txEcho.result = "none")
       => /\ txResult = "ok" <=> Len(txMsg) <= 2 * LEN_MASK
          /\ txResult = "ok"
                => parseHeader(txLine).datalen - parseHeader(txLine).zerobyte
                      = Len(txMsg)

\* C19: when one bit of the payload of a packet written by sendPacket is
\* inverted, receivePacket raises the packet-checksum error and returns no
\* payload.
C19_BitFlipRejected ==
    \A i \in DOMAIN wireOps :
        (/\ Scenario(i, <<"send", "flip", "recv">>)
         /\ wireOps[i + 1].data[1] <= Len(wireOps[i].data))
           => /\ wireOps[i + 2].result = "BadRfcError"
              /\ wireOps[i + 2].data = <<>>

\* C19 witness: a bit of the payload was inverted and the packet rejected.
C19_PayloadFlipSeen ==
    \E i \in DOMAIN wireOps :
        /\ Scenario(i, <<"send", "flip", "recv">>)
        /\ wireOps[i + 1].data[1] <= Len(wireOps[i].data)
        /\ wireOps[i + 2].result = "BadRfcError"

\* C20: a receivePacket call that raises the packet-checksum error on a
\* damaged packet has taken exactly that packet's bytes (header, declared
\* payload, checksum) from the input buffer, and the next call returns the
\* payload of the valid packet that follows.
C20_BadPacketConsumedExactly ==
    \A i \in DOMAIN wireOps :
        (/\ Scenario(i, <<"send", "flip", "send", "recv">>)
         /\ wireOps[i + 3].result = "BadRfcError")
           => /\ Len(wireOps[i + 3].bytes) = Len(wireOps[i].bytes)
              /\ Len(wireOps[i + 3].bytes)
                    = HEADER_LEN + parseHeader(wireOps[i].bytes).datalen + 2
              /\ (Len(wireOps) > i + 3 /\ wireOps[i + 4].op = "recv")
                    => /\ wireOps[i + 4].result = "ok"
                       /\ wireOps[i + 4].data = wireOps[i + 2].data
                       /\ wireOps[i + 4].bytes = wireOps[i + 2].bytes

\* C20 witness: a damaged packet was rejected and the packet after it read.
C20_NextPacketRead ==
    \E i \in DOMAIN wireOps :
        /\ Scenario(i, <<"send", "flip", "send", "recv", "recv">>)
        /\ wireOps[i + 3].result = "BadRfcError"
        /\ wireOps[i + 4].result = "ok"
        /\ wireOps[i + 4].data = wireOps[i + 2].data

\* ---------------------------------------------------------------- C21 ---
\* C21 (as stated): ackTransaction never issues more than ACK_LIMIT
\* transactions, and once it has returned the device port is closed and
\* either every Parameter is in sync or the cap was reached and the
\* Parameters still out of sync were reported.
C21_StopsInSyncOrAtCap ==
    /\ ackCount <= ACK_LIMIT
    /\ (ackPc = "idle" /\ ackResult \notin {"none", "raised"})
          => /\ ~ackOpen
             /\ \/ allInSync(ackPars)
                \/ ackCount = ACK_LIMIT /\ ackReport = failedParams(ackPars)

\* C21 (amended): ackTransaction never issues more than ACK_LIMIT
\* transactions and goes on only while device data exists and some
\* Parameter is out of sync; it returns with every Parameter in sync, or at
\* the cap with the Parameters still out of sync reported, or at once and
\* without a report when no device data has ever been received; the
\* device port is closed whenever it is not running.
C21_StopsInSyncNoDataOrAtCap ==
    /\ ackCount <= ACK_LIMIT
    /\ ackPc = "idle" => ~ackOpen
    /\ (ackPc = "loop" /\ ackCount > 0)
          => ackData # NoData /\ ~allInSync(ackPars)
    /\ (ackPc = "idle" /\ ackResult \notin {"none", "raised"})
          => \/ ackResult = "insync" /\ allInSync(ackPars) /\ ackReport = {}
             \/ /\ ackResult = "exhausted" /\ ackCount = ACK_LIMIT
                /\ ackReport = failedParams(ackPars) /\ ackReport # {}
             \/ ackResult = "nodata" /\ ackData = NoData /\ ackReport = {}

\* C21 witness: a call has returned at the cap with a Parameter reported.
C21_CapReached ==
    /\ ackPc = "idle" /\ ackResult = "exhausted"
    /\ ackCount = ACK_LIMIT /\ "POWER" \in ackReport

\* ---------------------------------------------------------------- C22 ---
\* The port call commLoop made last in this iteration ("-" before the first).
CallOf(io) == IF io = <<>> THEN "-" ELSE io[1]

\* C22: within one iteration of commLoop the port calls follow each other in
\* the order native read, device send, device receive, native write, with
\* wrap before the send and unwrap before the native write: a packet is
\* sent only after the native read of this iteration (or with the idle
\* payload when the native side is not read at all) and only wrapped, and
\* the native side is written only after the reply of this iteration has
\* been received and unwrapped.
C22_StepsInOrder ==
    [][(CallOf(commIo') # CallOf(commIo) /\ CallOf(commIo') # "-")
          => /\ CallOf(commIo') \in {"receiveNative", "in_waiting"}
                   => CallOf(commIo) = "-"
             /\ CallOf(commIo') = "sendPacket"
                   => /\ CallOf(commIo) \in {"-", "receiveNative"}
                      /\ nativeData.kind \in {"MSG", "IDLE"}
                      /\ nativeData.kind = "MSG"
                            => CallOf(commIo) = "receiveNative"
                      /\ Len(nativeData.flags) = 1
             /\ CallOf(commIo') = "receivePacket"
                   => CallOf(commIo) = "sendPacket" /\ commIo[2] = "ok"
             /\ CallOf(commIo') = "unwrap"
                   => CallOf(commIo) = "receivePacket"
             /\ CallOf(commIo') = "sendNative"
                   => /\ CallOf(commIo) = "receivePacket" /\ commIo[2] = "ok"
                      /\ deviceData.kind = "PAYLOAD"]_vars

\* C22 witness: an iteration that read a native message has written the
\* unwrapped reply to the native side.
C22_FullIteration ==
    /\ commIo = <<"sendNative", "ok">>
    /\ nativeData.kind = "MSG" /\ deviceData.kind = "PAYLOAD"
    /\ LastOf(commNotified) = "comm ok"

\* ---------------------------------------------------------------- C23 ---
\* C23 (as stated): receiveNative returns a message only when it keeps the
\* native framing: at most NATIVE_MAX_SIZE bytes ending with the
\* terminator, a valid first byte and a known command byte; any other
\* message raises DataInvalidError.
C23_BadFramingRaises ==
    natOut.result = "ok"
       => /\ Len(natOut.data) <= NATIVE_MAX_SIZE
          /\ natOut.data[Len(natOut.data)] = APP_TERMINATOR
          /\ headerValid(natOut.data[1])
          /\ natOut.data[2] \in KnownCommands

\* ---------------------------------------------------------------- C24 ---
\* C24: a message receiveNative returns is what followed the leading
\* terminators of the stream up to and including the first terminator
\* after them, at most NATIVE_MAX_SIZE bytes in all, and the bytes after
\* that terminator are still waiting in the port; and when the stream holds
\* such a message, receiveNative returns it.
C24_MessageUpToFirstTerminator ==
    /\ natOut.result = "ok"
          => /\ Len(natOut.data) \in 2 .. NATIVE_MAX_SIZE
             /\ natOut.data[Len(natOut.data)] = APP_TERMINATOR
             /\ \A i \in 1 .. Len(natOut.data) - 1 :
                    natOut.data[i] # APP_TERMINATOR
             /\ \E k \in 0 .. Len(natBefore) :
                    natBefore = [i \in 1 .. k |-> APP_TERMINATOR]
                                   \o natOut.data \o natIn
    /\ (/\ natOut.result # "none"
        /\ \E s \in 1 .. Len(natBefore) :
               /\ natBefore[s] # APP_TERMINATOR
               /\ \A i \in 1 .. s - 1 : natBefore[i] = APP_TERMINATOR
               /\ \E e \in s + 1 .. s + NATIVE_MAX_SIZE - 1 :
                      e <= Len(natBefore) /\ natBefore[e] = APP_TERMINATOR)
          => natOut.result = "ok"

\* C24 witness: a message of the full size was returned from a stream with
\* leading terminators, and a byte after it is still waiting.
C24_FullSizeMessageRestKept ==
    /\ natOut.result = "ok"
    /\ natBefore[1] = APP_TERMINATOR
    /\ Len(natOut.data) = NATIVE_MAX_SIZE
    /\ natIn # <<>>

\* ---------------------------------------------------------------- C25 ---
\* C25: unwrap of a reply shorter than REPLY_MIN_SIZE or longer than
\* APP_PACKET_MAX_SIZE bytes raises DataInvalidError and acknowledges
\* nothing: no Parameter and no Property is changed and no event is
\* notified.
C25_BadSizeAcksNothing ==
    (snOp.op = "unwrap"
       /\ (Len(snOp.arg) < REPLY_MIN_SIZE \/ Len(snOp.arg) > APP_PACKET_MAX_SIZE))
       => /\ snOp.result = "DataInvalidError"
          /\ snPars = snBefore.pars
          /\ snCntIn = snBefore.cntIn /\ snCntOut = snBefore.cntOut
          /\ snOp.emitted = <<>>

\* C25 witness: a reply one byte too long was rejected whose status and
\* counter bytes differ from what the adapter holds.
C25_LongReplyRejected ==
    /\ snOp.op = "unwrap" /\ snOp.result = "DataInvalidError"
    /\ Len(snOp.arg) = APP_PACKET_MAX_SIZE + 1
    /\ snPars["POWER"].status = <<FALSE>> /\ flags(snOp.arg[1])[1]
    /\ snCntOut # <<snOp.arg[2]>>

\* ---------------------------------------------------------------- C27 ---
\* C27 (as stated): wrap of the idle payload leaves CNT_IN unchanged, wrap
\* of any other payload increments it by exactly one, and the result is
\* always the status byte, the counter byte (CNT_IN modulo 256) and then
\* the payload unchanged.
C27_WrapCountsAndPrepends ==
    snOp.op = "wrap"
       => /\ snOp.result = "ok"
          /\ snCntIn # None /\ snBefore.cntIn # None
          /\ snCntIn[1] = snBefore.cntIn[1]
                             + (IF snOp.arg = DEFAULT_PAYLOAD THEN 0 ELSE 1)
          /\ snOp.out = <<bitsarray(snPars), snCntIn[1] % 256>> \o snOp.arg

C28_OkOnlyAfterCleanIteration ==
    Notified(commNotified, "comm ok")
       => /\ ~Notified(commNotified, "comm error")
          /\ ~Notified(commNotified, "comm timeout")

\* ---------------------------------------------------------------- C29 ---
\* C29 (as stated): a setProtocol call made while the Continuous loop is
\* running always completes: once the call has replaced the adapter, it
\* eventually returns.
C29_SetProtocolCompletes ==
    (cmdPc = "spLock" /\ commRunning) ~> (cmdPc = "idle")

\* ---------------------------------------------------------------- C30 ---
\* C30 (as stated): after stopComm is called while the loop is running, the
\* worker eventually reaches the stop check and exits and the call returns,
\* whatever bytes keep arriving.
C30_StopCompletes ==
    (stCall = "joining") ~> (stCall = "returned")

\* ---------------------------------------------------------------- C31 ---
\* C31 (as stated): a device reply that was received intact but that unwrap
\* rejects with DataInvalidError is discarded with a 'comm error' event and
\* commLoop goes on with its next iteration.
C31_RejectedReplyDiscarded ==
    [][(/\ commPc = "unwrap"
        /\ deviceData.kind = "REPLY"
        /\ ~deviceData.valid
        /\ commPc' # "unwrap")
          => /\ commPc' = "check"
             /\ commNotified' = Append(commNotified, "comm error")]_vars

\* ---------------------------------------------------------------- C32 ---
\* C32 (as stated): a startComm or enableSmart that returns False because a
\* port could not be opened closes no port that a running worker is using:
\* neither the native port of a live loop, nor the device port of a live
\* Continuous loop or of a Smart transaction in flight.
C32_FailedStartLeavesPorts ==
    [][(/\ \/ \E fails \in {"none", "app", "dev"} : StartComm(fails)
           \/ \E fails \in BOOLEAN : EnableSmart(fails)
        /\ status'[2] = "False")
          => /\ ((commAlive \/ ncsAlive) /\ appOpen) => appOpen'
             /\ ((commAlive \/ ncsPc \in {"txSend", "txRecv"}) /\ devOpen)
                   => devOpen']_vars

\* ---------------------------------------------------------------- C33 ---
\* C33 (as stated): the resync scan of receivePacket reads a bounded number
\* of header-sized portions, on the order of 100 (one for each of the
\* RESYNC_ATTEMPTS attempts and one more), before it returns a packet or
\* fails.
C33_ScanBounded ==
    scOut.portions <= RESYNC_ATTEMPTS + 1

\* ---------------------------------------------------------------- C34 ---
\* C34 (as stated): every header receivePacket hands to __readData is
\* HEADER_LEN bytes long and begins with the start byte, so that the
\* assertions of __parseHeader never fail, whatever the scan has read.
C34_HeaderAssertionsHold ==
    scOut.result # "AssertionError"

\* ---------------------------------------------------------------- C35 ---
\* C35 (as stated): once addHandler(e, h) has succeeded, every later
\* notify(e) calls h, whatever addEvents calls were made in between.
C35_HandlersSurvive ==
    ntOp[1] = "notify"
        => \A handler \in Handlers :
              <<ntOp[2], handler>> \in ntAdded
                  => \E i \in DOMAIN ntCalled : ntCalled[i] = handler

\* ---------------------------------------------------------------- C36 ---
\* C36 (as stated): in an iteration of commLoop that sent the idle payload
\* to the device because no native message was received, sendNative is
\* not called.
C36_NoReplyWithoutMessage ==
    [][(commPc = "sendNative" /\ nativeData.kind = "IDLE")
          => CallOf(commIo') # "sendNative"]_vars

\* C36 (amended): sendNative is skipped exactly when, at the end of the
\* iteration, native interaction is off or the native timeout counter is
\* not 0, i.e. the latest native read that did not fail with an invalid
\* message has timed out.
C36_SkippedOnTimeoutOrOff ==
    [][(commPc = "sendNative" /\ commPc' # "sendNative")
          => (CallOf(commIo') # "sendNative"
                 <=> (~interactWithNativeSoft \/ appTimeouts > 0))]_vars

\* C36 witness: an iteration that discarded an invalid native message and
\* sent the idle payload has written the reply to the native side.
C36_ReplyAfterInvalidMessage ==
    /\ commIo = <<"sendNative", "ok">>
    /\ nativeData.kind = "IDLE"
    /\ commNotified = <<"comm error", "comm ok">>

\* ---------------------------------------------------------------- C37 ---
\* C37 (as stated): in Smart mode the device port is never closed under a
\* transaction in flight: a thread that has sent its packet and has not
\* read the reply yet finds the port open.
C37_PortOpenInFlight ==
    \A thread \in ShareThreads : shPc[thread] = "recv" => shDevOpen

\* ---------------------------------------------------------------- C38 ---
\* C38 (as stated): the timeout counter of an endpoint grows by one with
\* every read of commLoop on that endpoint that times out and is 0 after
\* every read on it that returned a message or failed with an integrity
\* error.
C38_CountsConsecutiveTimeouts ==
    [][/\ ((\E outcome \in {"ok", "timeout", "integrity"} : CommReceiveNative(outcome))
              /\ CallOf(commIo') = "receiveNative")
          => appTimeouts' = IF commIo'[2] = "timeout" THEN appTimeouts + 1 ELSE 0
       /\ (\E outcome \in {"ok", "timeout", "integrity"}, reply \in Replies :
              CommReceivePacket(outcome, reply))
          => devTimeouts' = IF commIo'[2] = "timeout" THEN devTimeouts + 1 ELSE 0]_vars

\* ---------------------------------------------------------------- C39 ---
\* C39: after each device read timeout commLoop waits before it goes on:
\* SMALL_TIMEOUT_DELAY while the counter, the timeout included, is below
\* NO_REPLY_HOPELESS and BIG_TIMEOUT_DELAY once it has reached it; the wait
\* lasts until that time is over unless the stop Event is set, and once
\* the Event is set no more of it is waited.
C39_WaitsAfterTimeout ==
    [][/\ (dlPc = "recv" /\ dlTimeouts' = dlTimeouts + 1)
          => /\ dlPc' = "wait"
             /\ dlTimeouts' < NO_REPLY_HOPELESS => dlLeft' = SMALL_TIMEOUT_DELAY
             /\ dlTimeouts' >= NO_REPLY_HOPELESS => dlLeft' = BIG_TIMEOUT_DELAY
       /\ (dlPc = "wait" /\ dlPc' # "wait") => (dlLeft = 0 \/ dlStop)
       /\ (dlPc = "wait" /\ dlStop) => dlLeft' = dlLeft]_vars

\* C39 witness: a long wait, begun at the timeout that brought the counter
\* to NO_REPLY_HOPELESS, has been ended by the stop request before its time.
C39_LongWaitCutShort ==
    /\ dlPc = "check"
    /\ dlStop
    /\ dlTimeouts = NO_REPLY_HOPELESS
    /\ dlLeft > SMALL_TIMEOUT_DELAY

\* ---------------------------------------------------------------- C40 ---
\* C40: when packets were written back to back on a clean line, the k-th
\* receivePacket call returns the payload of the k-th packet and takes
\* exactly the bytes of that packet from the input stream.
C40_OnePacketPerCall ==
    LET n == Cardinality(Sends)
    IN  (\A i \in DOMAIN wireOps :
            /\ wireOps[i].op \in {"send", "recv"}
            /\ wireOps[i].op = "send" => wireOps[i].result = "ok")
        => \A k \in 1 .. n :
              n + k \in DOMAIN wireOps
                 => /\ wireOps[n + k].op = "recv"
                    /\ wireOps[n + k].result = "ok"
                    /\ wireOps[n + k].data = wireOps[k].data
                    /\ wireOps[n + k].bytes = wireOps[k].bytes

\* C40 witness: two different payloads were sent back to back and two
\* receivePacket calls have returned them in that order.
C40_TwoPacketsInOrder ==
    /\ Len(wireOps) = 4
    /\ wireOps[1].op = "send" /\ wireOps[2].op = "send"
    /\ wireOps[1].data # wireOps[2].data
    /\ wireOps[3].op = "recv" /\ wireOps[3].data = wireOps[1].data
    /\ wireOps[4].op = "recv" /\ wireOps[4].data = wireOps[2].data
    /\ wireOps[4].result = "ok"

=============================================================================
